---- MODULE Spec2Model ----
(***************************************************************************)
(* Deferred operation pipeline of the thumbnailer library: lazily loaded   *)
(* image data, the operation queue of a single Thumbnail and of a          *)
(* ThumbnailCollection, Target::store and the error aggregation.           *)
(*                                                                         *)
(* Pixel contents are kept uninterpreted: an image carries its origin, its *)
(* layout, its dimensions and the sequence of transformations its pixels   *)
(* went through (px).  Two buffers are equal iff they went through the     *)
(* same transformations in the same order, so nothing is assumed about     *)
(* operations commuting or cancelling.                                     *)
(***************************************************************************)
EXTENDS Integers, Sequences, FiniteSets, TLC

VARIABLES
    thumb,      \* the single Thumbnail handle, or NoThumb
    direct,     \* ghost: the original buffer with every queued operation applied directly, one by one
    coll,       \* the ThumbnailCollection (builder and collection): [images, ops]
    cdirect,    \* ghost: per collection member, the same as direct
    pc,         \* position of the running collection call: "idle" or the call's name
    target,     \* Target of the running collection call
    snapshot,   \* the local `ops` of the running collection call (clone of the shared queue)
    results,    \* per member, the worker's result of the running collection call, or Pending
    ncalls,     \* how many fan-out calls the collection has seen
    static_copy, \* the StaticThumbnail the caller keeps, or None
    last        \* what the last finished call returned and did

vars == <<thumb, direct, coll, cdirect, pc, target, snapshot, results, ncalls, static_copy, last>>

(***************************************************************************)
(* Bounds of the model                                                     *)
(***************************************************************************)
\* longest operation queue
MaxOps == 2
\* longest pixel history of one buffer
MaxPx == 3
\* most members of a collection
MaxImages == 3
\* most fan-out calls on one collection
MaxCalls == 2
\* u32 is modelled by a word of WordBits bits
WordBits == 4

(***************************************************************************)
(* The file system the library reads from                                  *)
(***************************************************************************)
Path(dir, name) == [dir |-> dir, name |-> name]

PathRgb == Path("in", <<"photo", "png">>)
PathDeep == Path("in", <<"deep", "png">>)
PathBroken == Path("in", <<"broken", "png">>)
PathDir == Path("in", <<"sub">>)
PathText == Path("in", <<"notes", "txt">>)
PathLocked == Path("in", <<"locked", "png">>)
\* a file whose stem holds a dot
PathDotted == Path("in", <<"my", "photo", "png">>)

SrcPaths == {PathRgb, PathDeep, PathBroken, PathDir, PathText, PathLocked}

\* what is found at a path: is it a regular file, can it be opened, the format
\* its content signature gives, whether the decoder accepts the content, and
\* the decoded buffer's layout and size
FileAt(p) ==
    CASE p = PathRgb    -> [is_file |-> TRUE, opens |-> TRUE, sig |-> "Png", decodes |-> TRUE, layout |-> "Rgb8", w |-> 4, h |-> 2]
      [] p = PathDeep   -> [is_file |-> TRUE, opens |-> TRUE, sig |-> "Png", decodes |-> TRUE, layout |-> "Rgb16", w |-> 2, h |-> 2]
      [] p = PathBroken -> [is_file |-> TRUE, opens |-> TRUE, sig |-> "Png", decodes |-> FALSE, layout |-> "Rgb8", w |-> 0, h |-> 0]
      [] p = PathDir    -> [is_file |-> FALSE, opens |-> FALSE, sig |-> "None", decodes |-> FALSE, layout |-> "Rgb8", w |-> 0, h |-> 0]
      [] p = PathText   -> [is_file |-> TRUE, opens |-> TRUE, sig |-> "None", decodes |-> FALSE, layout |-> "Rgb8", w |-> 0, h |-> 0]
      [] p = PathLocked -> [is_file |-> TRUE, opens |-> FALSE, sig |-> "Png", decodes |-> TRUE, layout |-> "Rgb8", w |-> 1, h |-> 1]
      [] p = PathDotted -> [is_file |-> TRUE, opens |-> TRUE, sig |-> "Png", decodes |-> TRUE, layout |-> "Rgb8", w |-> 2, h |-> 1]

(***************************************************************************)
(* Images and lazily loaded image data                                     *)
(***************************************************************************)
\* the element of a one-element set; { e(x) : x \in {v} } evaluates v once
Only(S) == CHOOSE x \in S : TRUE

Range(s) == { s[i] : i \in DOMAIN s }

NoImage == [src |-> Path("", <<>>), layout |-> "None", w |-> 0, h |-> 0, px |-> <<>>]

\* the decoder: the buffer a file decodes to
Decode(p) == [src |-> p, layout |-> FileAt(p).layout, w |-> FileAt(p).w, h |-> FileAt(p).h, px |-> <<>>]

\* ImageData::File(file, format) and ImageData::Image(image)
ImageData_File(format) == [st |-> "File", format |-> format, img |-> NoImage]
ImageData_Image(img) == [st |-> "Image", format |-> "None", img |-> img]

\* ThumbnailData {path, image}; decoded is a ghost counter of decoder runs
ThumbnailData(path, image, decoded) == [path |-> path, image |-> image, decoded |-> decoded]

NoData == ThumbnailData(Path("", <<>>), ImageData_File("None"), 0)

IsResident(data) == data.image.st = "Image"

(***************************************************************************)
(* Operations                                                              *)
(***************************************************************************)
NoOp == [kind |-> "None"]

\* BoxPosition
BoxPosition(anchor, x, y) == [anchor |-> anchor, x |-> x, y |-> y]

\* StaticThumbnail {src_path, image}
StaticThumbnail(src_path, image) == [src_path |-> src_path, image |-> image]

InvertOp == [kind |-> "Invert"]
ResizeOp(size, filter) == [kind |-> "Resize", size |-> size, filter |-> filter]
CombineOp(image, pos) == [kind |-> "Combine", image |-> image, pos |-> pos]

CropOp(crop) == [kind |-> "Crop", crop |-> crop]
ExifOp(metadata) == [kind |-> "Exif", metadata |-> metadata]

\* Crop::Box(x, y, width, height)
CropBox(x, y, width, height) == [mode |-> "Box", x |-> x, y |-> y, width |-> width, height |-> height]

\* Resize::ExactBox(x, y)
ExactBox(x, y) == [mode |-> "ExactBox", x |-> x, y |-> y]

\* a resident overlay image of 1 x 1 pixels
Logo == StaticThumbnail(Path("in", <<"logo", "png">>),
                        [src |-> Path("in", <<"logo", "png">>), layout |-> "Rgb8", w |-> 1, h |-> 1, px |-> <<>>])

\* the operations a caller queues in this model: one that always succeeds, one
\* that fails on buffers that are not 8 bit RGB, one whose anchor lies left of
\* the overlay's width and so fails on every buffer
Ops == {InvertOp, ResizeOp(ExactBox(1, 1), "None"), CombineOp(Logo, BoxPosition("TopRight", 0, 0))}

\* a rectangle that exceeds every image of the model
CropBeyond == CropOp(CropBox(1, 1, 8, 8))

\* the operations queued on a single Thumbnail: those above, a crop beyond the
\* image bounds and the Exif operation under two of its policies
ThumbOps == Ops \cup {CropBeyond, ExifOp("Keep"), ExifOp("Clear")}

\* the pixels of img after op went over them
Touched(img, op) == [img EXCEPT !.px = Append(@, op)]

OpOk(img) == [ok |-> TRUE, img |-> img, info |-> "None"]
OpErr(img, info) == [ok |-> FALSE, img |-> img, info |-> info]

\* the operation panicked: it returns nothing, the thread unwinds
OpPanic(img) == [ok |-> FALSE, img |-> img, info |-> "Panic"]

Min(a, b) == IF a <= b THEN a ELSE b

\* CropOp::apply: DynamicImage::crop clamps the rectangle to the image and
\* the operation reports success whatever the rectangle was
CropOp_apply(op, img) ==
    CASE op.crop.mode = "Box" ->
        LET x == Min(op.crop.x, img.w)
            y == Min(op.crop.y, img.h)
        IN  OpOk([Touched(img, op) EXCEPT !.w = Min(op.crop.width, img.w - x),
                                          !.h = Min(op.crop.height, img.h - y)])

\* ExifOp::apply: unimplemented!()
ExifOp_apply(op, img) == OpPanic(img)

\* InvertOp::apply
InvertOp_apply(op, img) == OpOk(Touched(img, op))

\* ResizeOp::apply
ResizeOp_apply(op, img) ==
    IF img.layout # "Rgb8"
    THEN OpErr(img, "RgbImageConversionFailure")
    ELSE CASE op.size.mode = "ExactBox" ->
                OpOk([Touched(img, op) EXCEPT !.w = op.size.x, !.h = op.size.y])

\* CombineOp::apply: the anchor gives the overlay's top left corner, then the
\* overlay is blended into an RGBA or RGB background
CombineOp_apply(op, img) ==
    LET overlay_width == op.image.image.w
        overlay_height == op.image.image.h
        x == op.pos.x
        y == op.pos.y
        in_range ==
            CASE op.pos.anchor = "TopLeft" -> TRUE
              [] op.pos.anchor = "TopRight" -> x >= overlay_width
              [] op.pos.anchor = "BottomLeft" -> y >= overlay_height
              [] op.pos.anchor = "BottomRight" -> x >= overlay_width /\ y >= overlay_height
    IN  IF ~in_range THEN OpErr(img, "CoordinatesOutOfRange")
        ELSE IF img.layout \in {"Rgba8", "Rgb8"} THEN OpOk(Touched(img, op))
        ELSE OpErr(img, "ImageBufferConversionFailure")

\* Operation::apply, dispatched on the operation's type
Operation_apply(op, img) ==
    CASE op.kind = "Invert" -> InvertOp_apply(op, img)
      [] op.kind = "Resize" -> ResizeOp_apply(op, img)
      [] op.kind = "Combine" -> CombineOp_apply(op, img)
      [] op.kind = "Crop" -> CropOp_apply(op, img)
      [] op.kind = "Exif" -> ExifOp_apply(op, img)

(***************************************************************************)
(* The operations on buffers with pixel values and sizes                   *)
(***************************************************************************)
\* u32: the values 0 .. WordMax
Word == 2 ^ WordBits
WordMax == Word - 1

\* a buffer with its pixels: pix maps <<x, y>> to <<red, green, blue, alpha>>
\* (the alpha of an RGB buffer is not stored; it reads as 255)
PixelImage(layout, w, h, pix) == [layout |-> layout, w |-> w, h |-> h, pix |-> pix]
Coords(w, h) == (0..(w - 1)) \X (0..(h - 1))
Uniform(layout, w, h, pixel) == PixelImage(layout, w, h, [c \in Coords(w, h) |-> pixel])

\* StaticThumbnail::dimensions
StaticThumbnail_dimensions(st) == <<st.image.w, st.image.h>>

\* DynamicImage::to_rgba: an RGB buffer gets the alpha 255
to_rgba(image) ==
    IF image.layout = "Rgba8" THEN image
    ELSE [image EXCEPT !.layout = "Rgba8",
                       !.pix = [c \in DOMAIN image.pix |-> [image.pix[c] EXCEPT ![4] = 255]]]

\* a `match self.pos` whose BottomRight arm looks at x only
BoxPosition_origin_x_only(pos, box_width, box_height) ==
    CASE pos.anchor = "TopLeft" -> [ok |-> TRUE, x |-> pos.x, y |-> pos.y]
      [] pos.anchor = "TopRight" ->
            IF pos.x >= box_width THEN [ok |-> TRUE, x |-> pos.x - box_width, y |-> pos.y]
            ELSE [ok |-> FALSE, x |-> 0, y |-> 0]
      [] pos.anchor = "BottomLeft" ->
            IF pos.y >= box_height THEN [ok |-> TRUE, x |-> pos.x, y |-> pos.y - box_height]
            ELSE [ok |-> FALSE, x |-> 0, y |-> 0]
      [] pos.anchor = "BottomRight" ->
            IF pos.x >= box_width
            THEN [ok |-> TRUE, x |-> pos.x - box_width, y |-> (pos.y - box_height) % Word]
            ELSE [ok |-> FALSE, x |-> 0, y |-> 0]

\* `match self.pos` of CombineOp::apply and TextOp::apply: the top left corner
\* of a box of the given extent, or the refusal of the anchor
BoxPosition_origin(pos, box_width, box_height) ==
    CASE pos.anchor = "TopLeft" -> [ok |-> TRUE, x |-> pos.x, y |-> pos.y]
      [] pos.anchor = "TopRight" ->
            IF pos.x >= box_width THEN [ok |-> TRUE, x |-> pos.x - box_width, y |-> pos.y]
            ELSE [ok |-> FALSE, x |-> 0, y |-> 0]
      [] pos.anchor = "BottomLeft" ->
            IF pos.y >= box_height THEN [ok |-> TRUE, x |-> pos.x, y |-> pos.y - box_height]
            ELSE [ok |-> FALSE, x |-> 0, y |-> 0]
      [] pos.anchor = "BottomRight" ->
            IF pos.x >= box_width /\ pos.y >= box_height
            THEN [ok |-> TRUE, x |-> pos.x - box_width, y |-> pos.y - box_height]
            ELSE [ok |-> FALSE, x |-> 0, y |-> 0]

\* (alpha * src + alpha_inv * dst) as u8, alpha being a / 255.0; exact in f32
\* for the alphas 0 and 255 the model draws
blend_channel(a, src, dst) == (a * src + (255 - a) * dst) \div 255

\* `for index in 0..2`: the channels at index 0 and 1 are blended
blend_pixel(over, back) ==
    [index \in 1..4 |-> IF index - 1 \in 0..1 THEN blend_channel(over[4], over[index], back[index])
                        ELSE back[index]]

\* the loop of CombineOp::apply over the overlay's pixels in row order, from
\* pixel number k on.  x + x_pos and y + y_pos are u32 additions: past WordMax
\* they panic in a build with overflow checks and wrap in one without
RECURSIVE blend_loop(_, _, _, _, _, _)
blend_loop(overlay, image, x_pos, y_pos, k, overflow_checks) ==
    IF k >= overlay.w * overlay.h THEN OpOk(image)
    ELSE Only({
        IF (x + x_pos > WordMax \/ y + y_pos > WordMax) /\ overflow_checks
        THEN OpPanic(image)
        ELSE Only({
            blend_loop(overlay,
                       IF cx < image.w /\ cy < image.h
                       THEN [image EXCEPT !.pix[<<cx, cy>>] = blend_pixel(overlay.pix[<<x, y>>], @)]
                       ELSE image,
                       x_pos, y_pos, k + 1, overflow_checks)
            : cx \in {(x + x_pos) % Word}, cy \in {(y + y_pos) % Word} })
        : x \in {k % overlay.w}, y \in {k \div overlay.w} })

\* CombineOp::apply on a buffer with pixel values
CombineOp_apply_pixels(op, image, overflow_checks) ==
    Only({
        IF ~origin.ok THEN OpErr(image, "CoordinatesOutOfRange")
        ELSE IF image.layout \notin {"Rgba8", "Rgb8"} THEN OpErr(image, "ImageBufferConversionFailure")
        ELSE blend_loop(to_rgba(op.image.image), image, origin.x, origin.y, 0, overflow_checks)
        : origin \in {BoxPosition_origin(op.pos, StaticThumbnail_dimensions(op.image)[1],
                                         StaticThumbnail_dimensions(op.image)[2])} })

\* TextOp {text, pos}; text is the sequence of its characters
TextOp(text, pos) == [kind |-> "Text", text |-> text, pos |-> pos]

\* h_metrics().advance_width of a glyph at the scale 12, in tenths of a pixel
advance_width(ch) ==
    CASE ch = "i" -> 29
      [] ch = "W" -> 108

\* the sum of the advance widths of text[i..], in tenths of a pixel
RECURSIVE string_width_from(_, _)
string_width_from(text, i) ==
    IF i > Len(text) THEN 0 ELSE advance_width(text[i]) + string_width_from(text, i + 1)

\* string_width as u32 and string_height as u32 (ascent - descent at the
\* scale 12 is a little over 14 pixels)
string_width(text) == string_width_from(text, 1) \div 10
string_height == 140 \div 10

\* draw_text_mut: the pixels of the text's box that lie on the image are drawn
\* in white
draw_text_mut(image, pos_x, pos_y, text) ==
    [image EXCEPT !.pix =
        [c \in DOMAIN image.pix |->
            IF /\ c[1] >= pos_x /\ c[1] < pos_x + string_width(text)
               /\ c[2] >= pos_y /\ c[2] < pos_y + string_height
            THEN <<255, 255, 255, 255>> ELSE image.pix[c]]]

\* TextOp::apply on a buffer with pixel values; the font is compiled in and loads
TextOp_apply_pixels(op, image) ==
    Only({
        IF ~origin.ok THEN OpErr(image, "CoordinatesOutOfRange")
        ELSE OpOk(draw_text_mut(image, origin.x, origin.y, op.text))
        : origin \in {BoxPosition_origin(op.pos, string_width(op.text), string_height)} })

\* Crop::Ratio(ratio_width, ratio_height); the two f32 hold whole numbers here
CropRatio(ratio_width, ratio_height) == [mode |-> "Ratio", w_r |-> ratio_width, h_r |-> ratio_height]

\* `(num / den) as u32` for an f32 quotient that is exact: the cast truncates
\* and saturates at u32::MAX
f32_as_u32(num, den) == Min(num \div den, WordMax)

\* DynamicImage::crop: the rectangle is clamped to the image and its pixels
\* are copied
DynamicImage_crop(image, x, y, width, height) ==
    Only({ PixelImage(image.layout, Min(width, image.w - cx), Min(height, image.h - cy),
                      [c \in Coords(Min(width, image.w - cx), Min(height, image.h - cy)) |->
                          image.pix[<<c[1] + cx, c[2] + cy>>]])
           : cx \in {Min(x, image.w)}, cy \in {Min(y, image.h)} })

\* a Crop::Ratio arm that cuts from the left and from the top
Crop_Ratio_rect_uncentred(w_r, h_r, width, height) ==
    IF width * h_r <= w_r * height
    THEN Only({ [x |-> 0, y |-> 0, w |-> width, h |-> height_new]
                : height_new \in {f32_as_u32(width * h_r * height, height * w_r)} })
    ELSE Only({ [x |-> 0, y |-> 0, w |-> width_new, h |-> height]
                : width_new \in {f32_as_u32(w_r * height * width, h_r * width)} })

\* the Crop::Ratio arm of CropOp::apply: the rectangle handed to crop.
\* ratio_old = width / height and ratio_new = w_r / h_r are compared as
\* fractions; the sizes and ratios of the model make every f32 quotient exact
Crop_Ratio_rect(w_r, h_r, width, height) ==
    IF width * h_r <= w_r * height
    THEN Only({ [x |-> 0, y |-> (height - height_new) \div 2, w |-> width, h |-> height_new]
                : height_new \in {f32_as_u32(width * h_r * height, height * w_r)} })
    ELSE Only({ [x |-> (width - width_new) \div 2, y |-> 0, w |-> width_new, h |-> height]
                : width_new \in {f32_as_u32(w_r * height * width, h_r * width)} })

\* CropOp::apply on a buffer with pixel values
CropOp_apply_pixels(op, image) ==
    CASE op.crop.mode = "Box" ->
            OpOk(DynamicImage_crop(image, op.crop.x, op.crop.y, op.crop.width, op.crop.height))
      [] op.crop.mode = "Ratio" ->
            Only({ OpOk(DynamicImage_crop(image, r.x, r.y, r.w, r.h))
                   : r \in {Crop_Ratio_rect(op.crop.w_r, op.crop.h_r, image.w, image.h)} })

\* Resize::Height(y), Resize::Width(x), Resize::BoundingBox(x, y)
Height(y) == [mode |-> "Height", y |-> y]
Width(x) == [mode |-> "Width", x |-> x]
BoundingBox(x, y) == [mode |-> "BoundingBox", x |-> x, y |-> y]

\* `t + 1` on u32: the sum, or with an overflow a panic in a build with
\* overflow checks and the wrapped value in one without
u32_add_one(t, overflow_checks) ==
    IF t + 1 <= WordMax THEN [ok |-> TRUE, v |-> t + 1]
    ELSE IF overflow_checks THEN [ok |-> FALSE, v |-> 0]
    ELSE [ok |-> TRUE, v |-> (t + 1) % Word]

\* the box ResizeOp::apply hands to the resizer, for an image of
\* width x height pixels (aspect_ratio = width / height; the sizes of the model
\* make the f32 products and quotients exact)
ResizeOp_request(size, width, height, overflow_checks) ==
    CASE size.mode = "Height" ->
            Only({ [ok |-> r.ok, x |-> r.v, y |-> size.y]
                   : r \in {u32_add_one(f32_as_u32(width * size.y, height), overflow_checks)} })
      [] size.mode = "Width" ->
            Only({ [ok |-> r.ok, x |-> size.x, y |-> r.v]
                   : r \in {u32_add_one(f32_as_u32(size.x * height, width), overflow_checks)} })
      [] size.mode \in {"BoundingBox", "ExactBox"} -> [ok |-> TRUE, x |-> size.x, y |-> size.y]

Max(a, b) == IF a >= b THEN a ELSE b

\* the size DynamicImage::resize and DynamicImage::thumbnail give the result:
\* the largest one of the image's ratio inside nwidth x nheight, at least one
\* pixel on the derived side
resize_dimensions(width, height, nwidth, nheight) ==
    IF nwidth * height <= width * nheight
    THEN <<nwidth, Max(1, (height * nwidth) \div width)>>
    ELSE <<Max(1, (width * nheight) \div height), nheight>>

\* DynamicImage::resize, resize_exact, thumbnail and thumbnail_exact on an
\* image of one colour: an image of that colour and of the new size
DynamicImage_resize(image, nwidth, nheight, exact) ==
    Only({ PixelImage(image.layout, d[1], d[2], [c \in Coords(d[1], d[2]) |-> image.pix[<<0, 0>>]])
           : d \in {IF exact THEN <<nwidth, nheight>>
                    ELSE resize_dimensions(image.w, image.h, nwidth, nheight)} })

\* what a call of ResizeOp::apply gives, with the box it asked the resizer for
ResizeOut(out, req) == [ok |-> out.ok, img |-> out.img, info |-> out.info, req |-> req]

\* ResizeOp::apply on a buffer with pixel values
ResizeOp_apply_pixels(op, image, overflow_checks) ==
    IF image.layout # "Rgb8"
    THEN ResizeOut(OpErr(image, "RgbImageConversionFailure"), <<0, 0>>)
    ELSE Only({
            IF ~r.ok THEN ResizeOut(OpPanic(image), <<0, 0>>)
            ELSE ResizeOut(OpOk(DynamicImage_resize(image, r.x, r.y, op.size.mode = "ExactBox")),
                           <<r.x, r.y>>)
            : r \in {ResizeOp_request(op.size, image.w, image.h, overflow_checks)} })

(***************************************************************************)
(* ThumbnailData                                                           *)
(***************************************************************************)
\* FileError values
FileError(tag, path) == [tag |-> tag, path |-> path]

\* a load that decodes at once instead of keeping the file handle; the deferred
\* decoding of load is measured against it
ThumbnailData_load_eager(path) ==
    LET f == FileAt(path) IN
    IF ~f.is_file THEN [ok |-> FALSE, err |-> FileError("NotFound", path), data |-> NoData]
    ELSE IF ~f.opens THEN [ok |-> FALSE, err |-> FileError("IoError", path), data |-> NoData]
    ELSE IF f.sig = "None" \/ ~f.decodes
         THEN [ok |-> FALSE, err |-> FileError("NotSupported", path), data |-> NoData]
    ELSE [ok |-> TRUE, err |-> FileError("None", path),
          data |-> ThumbnailData(path, ImageData_Image(Decode(path)), 1)]

\* ThumbnailData::load
ThumbnailData_load(path) ==
    LET f == FileAt(path) IN
    IF ~f.is_file THEN [ok |-> FALSE, err |-> FileError("NotFound", path), data |-> NoData]
    ELSE IF ~f.opens THEN [ok |-> FALSE, err |-> FileError("IoError", path), data |-> NoData]
    ELSE IF f.sig = "None" THEN [ok |-> FALSE, err |-> FileError("NotSupported", path), data |-> NoData]
    ELSE [ok |-> TRUE, err |-> FileError("None", path),
          data |-> ThumbnailData(path, ImageData_File(f.sig), 0)]

\* a get_dyn_image that runs the decoder on every read, resident or not
get_dyn_image_decoding_again(data) ==
    IF FileAt(data.path).decodes
    THEN [ok |-> TRUE,
          data |-> ThumbnailData(data.path, ImageData_Image(Decode(data.path)), data.decoded + 1)]
    ELSE [ok |-> FALSE, data |-> data]

\* ThumbnailData::get_dyn_image: decodes a File into an Image, hands out the Image
get_dyn_image(data) ==
    IF data.image.st = "File"
    THEN IF FileAt(data.path).decodes
         THEN [ok |-> TRUE,
               data |-> ThumbnailData(data.path, ImageData_Image(Decode(data.path)), data.decoded + 1)]
         ELSE [ok |-> FALSE, data |-> data]
    ELSE [ok |-> TRUE, data |-> data]

\* an assert_dynamic_image_loaded that takes an undecodable file for an empty buffer
assert_dynamic_image_loaded_lenient(data) ==
    Only({ IF r.ok THEN r
           ELSE [ok |-> TRUE, data |-> [data EXCEPT !.image = ImageData_Image(NoImage)]]
           : r \in {get_dyn_image(data)} })

\* ThumbnailData::assert_dynamic_image_loaded
assert_dynamic_image_loaded(data) == get_dyn_image(data)

\* the loop of apply_ops_list over ops[i..], on a resident image
RECURSIVE apply_ops_loop(_, _, _)
apply_ops_loop(img, ops, i) ==
    IF i > Len(ops) THEN [res |-> "Ok", err |-> NoOp, img |-> img]
    ELSE Only({ IF r.info = "Panic" THEN [res |-> "Panic", err |-> ops[i], img |-> r.img]
                ELSE IF ~r.ok THEN [res |-> "OperationError", err |-> ops[i], img |-> r.img]
                ELSE apply_ops_loop(r.img, ops, i + 1)
                : r \in {Operation_apply(ops[i], img)} })

\* an apply_ops_list that runs the queue from its end to its head
apply_ops_list_backwards(data, ops) ==
    Only({ IF ~loaded.ok THEN [res |-> "LoadingImageError", err |-> NoOp, data |-> loaded.data]
           ELSE Only({ [res |-> r.res, err |-> r.err,
                        data |-> [loaded.data EXCEPT !.image = ImageData_Image(r.img)]]
                       : r \in {apply_ops_loop(loaded.data.image.img,
                                               [k \in 1..Len(ops) |-> ops[Len(ops) + 1 - k]], 1)} })
           : loaded \in {assert_dynamic_image_loaded(data)} })

\* ThumbnailData::apply_ops_list
apply_ops_list(data, ops) ==
    Only({ IF ~loaded.ok THEN [res |-> "LoadingImageError", err |-> NoOp, data |-> loaded.data]
           ELSE Only({ [res |-> r.res, err |-> r.err,
                        data |-> [loaded.data EXCEPT !.image = ImageData_Image(r.img)]]
                       : r \in {apply_ops_loop(loaded.data.image.img, ops, 1)} })
           : loaded \in {assert_dynamic_image_loaded(data)} })

\* ThumbnailData::try_clone_and_load
\* a try_clone_and_load that copies the handle as it is, file handle included
ThumbnailData_try_clone_and_load_as_is(data) ==
    [ok |-> TRUE, data |-> data, clone |-> ThumbnailData(data.path, data.image, 0)]

ThumbnailData_try_clone_and_load(data) ==
    Only({ [ok |-> r.ok, data |-> r.data,
            clone |-> IF r.ok THEN ThumbnailData(data.path, ImageData_Image(r.data.image.img), 0)
                      ELSE NoData]
           : r \in {get_dyn_image(data)} })

(***************************************************************************)
(* Target: path resolution and store                                       *)
(***************************************************************************)
\* Optional values: <<>> is None, <<v>> is Some(v)
None == <<>>
Some(v) == <<v>>

\* A destination as the caller gives it.  dir is the directory part (the whole
\* path when the destination denotes a directory), name the file name split at
\* its dots (empty when the destination denotes a directory), is_dir whether it
\* exists as a directory, sep whether its string ends with a separator, and
\* mkdir_ok whether create_dir_all succeeds on it (on its parent for a file).
Dst(dir, name, is_dir, sep, mkdir_ok) ==
    [dir |-> dir, name |-> name, is_dir |-> is_dir, sep |-> sep, mkdir_ok |-> mkdir_ok]

\* Path::file_stem, as the segments of the stem
file_stem(path) ==
    IF path.name = <<>> THEN None
    ELSE IF Len(path.name) = 1 THEN Some(path.name)
    ELSE IF Len(path.name) = 2 /\ path.name[1] = "" THEN Some(path.name)
    ELSE Some(SubSeq(path.name, 1, Len(path.name) - 1))

\* Path::extension
extension(path) ==
    IF Len(path.name) <= 1 THEN None
    ELSE IF Len(path.name) = 2 /\ path.name[1] = "" THEN None
    ELSE Some(path.name[Len(path.name)])

\* PathBuf::set_extension
set_extension(path, ext) ==
    IF path.name = <<>> THEN path
    ELSE IF extension(path) = None THEN [path EXCEPT !.name = Append(@, ext)]
    ELSE [path EXCEPT !.name = Append(SubSeq(@, 1, Len(@) - 1), ext)]

\* a compute_and_create_path that takes every destination that is no
\* existing directory for a file path
compute_and_create_path_as_file(dst, src) ==
    LET filename == IF file_stem(src) = None THEN <<"NAME_MISSING">> ELSE file_stem(src)[1] IN
    IF dst.is_dir THEN [ok |-> TRUE, path |-> Path(dst.dir, filename), created |-> <<>>]
    ELSE IF dst.mkdir_ok THEN [ok |-> TRUE, path |-> Path(dst.dir, dst.name), created |-> <<"parent">>]
    ELSE [ok |-> FALSE, path |-> Path(dst.dir, dst.name), created |-> <<>>]

\* compute_and_create_path; created tells what create_dir_all made: the
\* destination itself ("dst"), its parent chain ("parent"), or nothing
compute_and_create_path(dst, src) ==
    LET filename == IF file_stem(src) = None THEN <<"NAME_MISSING">> ELSE file_stem(src)[1] IN
    IF dst.is_dir THEN [ok |-> TRUE, path |-> Path(dst.dir, filename), created |-> <<>>]
    ELSE IF dst.sep
         THEN IF dst.mkdir_ok THEN [ok |-> TRUE, path |-> Path(dst.dir, filename), created |-> <<"dst">>]
              ELSE [ok |-> FALSE, path |-> Path(dst.dir, dst.name), created |-> <<>>]
    ELSE IF dst.mkdir_ok THEN [ok |-> TRUE, path |-> Path(dst.dir, dst.name), created |-> <<"parent">>]
    ELSE [ok |-> FALSE, path |-> Path(dst.dir, dst.name), created |-> <<>>]

\* the file name "{stem}-{count}.{ext}" of Target::store
indexed_file_name(path, count) ==
    LET stem == IF file_stem(path) = None THEN <<"NAME_MISSING">> ELSE file_stem(path)[1]
        ext == IF extension(path) = None THEN "" ELSE extension(path)[1]
        n == Len(stem)
    IN  Append([stem EXCEPT ![n] = @ \o "-" \o ToString(count)], ext)

\* str::to_lowercase on the extensions that occur
to_lowercase(s) ==
    CASE s = "PNG" -> "png"
      [] s = "JPG" -> "jpg"
      [] s = "JPEG" -> "jpeg"
      [] s = "Tif" -> "tif"
      [] s = "TIFF" -> "tiff"
      [] s = "BMP" -> "bmp"
      [] s = "Gif" -> "gif"
      [] OTHER -> s

\* an ensure_ext that compares the extension as it is written
ensure_ext_exact(ext, expected) == ext # None /\ ext[1] = expected

\* ensure_ext
ensure_ext(ext, expected) == ext # None /\ to_lowercase(ext[1]) = expected

\* DynamicImage::save_with_format: the encoders for Jpeg, Bmp and Gif take
\* 8 bit buffers only
save_with_format(image, dst, format) ==
    \/ format \in {"Png", "Tiff"}
    \/ image.layout \in {"Rgb8", "Rgba8"}

\* store_jpg, store_png, store_tiff, store_bmp, store_gif
store_as(format, accepted, canonical, image, dst) ==
    Only({ IF save_with_format(image, out, format)
           THEN [ok |-> TRUE, path |-> out, err |-> FileError("None", out)]
           ELSE [ok |-> FALSE, path |-> out, err |-> FileError("NotSupported", out)]
           : out \in {IF \E e \in accepted : ensure_ext(extension(dst), e) THEN dst
                      ELSE set_extension(dst, canonical)} })

store_jpg(image, dst) == store_as("Jpeg", {"jpg", "jpeg"}, "jpg", image, dst)
store_png(image, dst) == store_as("Png", {"png"}, "png", image, dst)
store_tiff(image, dst) == store_as("Tiff", {"tif", "tiff"}, "tiff", image, dst)
store_bmp(image, dst) == store_as("Bmp", {"bmp"}, "bmp", image, dst)
store_gif(image, dst) == store_as("Gif", {"gif"}, "gif", image, dst)

\* the encoder Target::store selects by the item's format
store_item(method, dyn_image, path) ==
    CASE method = "Jpeg" -> store_jpg(dyn_image, path)
      [] method = "Png" -> store_png(dyn_image, path)
      [] method = "Tiff" -> store_tiff(dyn_image, path)
      [] method = "Bmp" -> store_bmp(dyn_image, path)
      [] method = "Gif" -> store_gif(dyn_image, path)

\* TargetItem {path, method}
TargetItem(path, method) == [path |-> path, method |-> method]

\* the loop of Target::store over items[i..]; result holds the paths stored so
\* far, written the files the encoders wrote: their path and the buffer encoded
RECURSIVE Target_store_loop(_, _, _, _, _, _)
Target_store_loop(items, i, data, count, result, written) ==
    IF i > Len(items)
    THEN [ok |-> TRUE, data |-> data, paths |-> result, err |-> FileError("None", Path("", <<>>)), written |-> written]
    ELSE
    Only({
        IF ~computed.ok
        THEN [ok |-> FALSE, data |-> data, paths |-> <<>>, err |-> FileError("IoError", computed.path), written |-> written]
        ELSE Only({
            IF ~loaded.ok
            THEN [ok |-> FALSE, data |-> loaded.data, paths |-> <<>>, err |-> FileError("UnknownError", data.path), written |-> written]
            ELSE Only({
                IF ~stored.ok
                THEN [ok |-> FALSE, data |-> loaded.data, paths |-> <<>>, err |-> stored.err, written |-> written]
                ELSE Only({ Target_store_loop(items, i + 1, loaded.data, count, r, w)
                            : r \in {Append(result, stored.path)},
                              w \in {Append(written, [path |-> stored.path,
                                                      image |-> loaded.data.image.img])} })
                : stored \in {store_item(items[i].method, loaded.data.image.img, path)} })
            : loaded \in {get_dyn_image(data)},
              path \in {IF count = None THEN computed.path
                        ELSE [computed.path EXCEPT !.name = indexed_file_name(computed.path, count[1])]} })
        : computed \in {compute_and_create_path(items[i].path, data.path)} })

\* Target::store
Target_store(items, data, count) == Target_store_loop(items, 1, data, count, <<>>, <<>>)

\* destinations and targets handed to the store calls
DstOut == Dst("out", <<>>, TRUE, FALSE, TRUE)
DstFile == Dst("new", <<"thumb", "JPG">>, FALSE, FALSE, TRUE)
DstDenied == Dst("denied", <<>>, FALSE, TRUE, FALSE)

Targets == {
    <<TargetItem(DstOut, "Png")>>,
    <<TargetItem(DstOut, "Png"), TargetItem(DstFile, "Jpeg")>>,
    <<TargetItem(DstFile, "Jpeg"), TargetItem(DstOut, "Png")>>,
    <<TargetItem(DstDenied, "Png")>> }

\* the target handed to the collection's store calls: its second item takes
\* 8 bit buffers only
CollTargets == { <<TargetItem(DstOut, "Png"), TargetItem(DstFile, "Jpeg")>> }

NoTarget == <<>>

(***************************************************************************)
(* State of the handles and of the last call                               *)
(***************************************************************************)
\* Thumbnail {data, ops}; live is FALSE when no handle exists (not yet loaded,
\* or moved into a consuming call)
Thumbnail(data, ops) == [live |-> TRUE, data |-> data, ops |-> ops]
NoThumb == [live |-> FALSE, data |-> NoData, ops |-> <<>>]

\* ThumbnailCollection {images, ops}
ThumbnailCollection(images, ops) == [images |-> images, ops |-> ops]

\* the ghost buffer that has every queued operation applied directly
NoDirect == [valid |-> FALSE, img |-> NoImage]
DirectOf(path) == IF FileAt(path).decodes THEN [valid |-> TRUE, img |-> Decode(path)] ELSE NoDirect
DirectApply(d, op) ==
    IF d.valid /\ Operation_apply(op, d.img).ok
    THEN [valid |-> TRUE, img |-> Operation_apply(op, d.img).img]
    ELSE NoDirect

\* (glob and walk: the pattern add_glob was given and the entries its walk
\* yielded, in their order)
\* the record of a call: its name, the result's variant, the operation of an
\* OperationError, the FileError, the returned paths (or CollectionError.paths),
\* CollectionError.store_errors and .operation_errors, the files written, the
\* handle as it was when the call began, the path, the target and the index
\* the call was given, what create_dir_all made, and the data and the queue
\* of the handle a clone call returned
NoLast ==
    [call |-> "none", res |-> "None", err |-> NoOp, ferr |-> FileError("None", Path("", <<>>)),
     paths |-> <<>>, store_errors |-> <<>>, operation_errors |-> <<>>, written |-> <<>>,
     before |-> NoThumb, cbefore |-> ThumbnailCollection(<<>>, <<>>),
     arg |-> Path("", <<>>), tgt |-> NoTarget, count |-> None, created |-> <<>>,
     ret |-> NoData, retops |-> <<>>, glob |-> "", walk |-> <<>>]

Called(call, res) == [NoLast EXCEPT !.call = call, !.res = res]

\* room for one more pass of the queue in the pixel history
PxRoom(data, ops) == Len(data.image.img.px) + Len(ops) <= MaxPx

\* no collection call is running and no call has panicked: the caller is free
\* to make a call
Idle == pc \in {"building", "idle", "gone"} /\ last.res # "Panic"

CollUnchanged == UNCHANGED <<coll, cdirect, pc, target, snapshot, results, ncalls, static_copy>>

(***************************************************************************)
(* Thumbnail                                                               *)
(***************************************************************************)
\* Thumbnail::load
Thumbnail_load(path) ==
    /\ Idle /\ ~thumb.live
    /\ \E r \in {ThumbnailData_load(path)} :
       /\ thumb' = IF r.ok THEN Thumbnail(r.data, <<>>) ELSE NoThumb
       /\ direct' = IF r.ok THEN DirectOf(path) ELSE NoDirect
       /\ last' = [Called("load", IF r.ok THEN "Ok" ELSE r.err.tag) EXCEPT !.arg = path, !.ferr = r.err]
    /\ CollUnchanged

\* an add_op that puts the operation at the head of the queue
Thumbnail_add_op_front(op) ==
    /\ Idle /\ thumb.live /\ Len(thumb.ops) < MaxOps
    /\ thumb' = [thumb EXCEPT !.ops = <<op>> \o @]
    /\ direct' = DirectApply(direct, op)
    /\ last' = [Called("add_op", "Ok") EXCEPT !.before = thumb]
    /\ CollUnchanged

\* OperationContainer::add_op for Thumbnail (the queueing calls of
\* GenericThumbnailOperations end in it)
Thumbnail_add_op(op) ==
    /\ Idle /\ thumb.live /\ Len(thumb.ops) < MaxOps
    /\ thumb' = [thumb EXCEPT !.ops = Append(@, op)]
    /\ direct' = DirectApply(direct, op)
    /\ last' = [Called("add_op", "Ok") EXCEPT !.before = thumb]
    /\ CollUnchanged

\* a Thumbnail::apply that clears the queue whatever apply_ops_list returned
Thumbnail_apply_fn_clearing(t) ==
    Only({ [thumb |-> Thumbnail(r.data, <<>>), res |-> r.res, err |-> r.err]
           : r \in {apply_ops_list(t.data, t.ops)} })

\* Thumbnail::apply as a function of the handle: the handle after it and the result
Thumbnail_apply_fn(t) ==
    Only({ IF r.res = "Ok"
           THEN [thumb |-> Thumbnail(r.data, <<>>), res |-> r.res, err |-> r.err]
           ELSE [thumb |-> Thumbnail(r.data, t.ops), res |-> r.res, err |-> r.err]
           : r \in {apply_ops_list(t.data, t.ops)} })

\* GenericThumbnail::apply for Thumbnail
\* an apply whose buffer is shared with the StaticThumbnail taken from it
Thumbnail_apply_shared ==
    /\ Idle /\ thumb.live /\ PxRoom(thumb.data, thumb.ops)
    /\ \E r \in {Thumbnail_apply_fn(thumb)} :
       /\ thumb' = r.thumb
       /\ last' = [Called("apply", r.res) EXCEPT !.err = r.err, !.before = thumb]
       /\ static_copy' = IF static_copy # None /\ IsResident(r.thumb.data)
                         THEN Some(StaticThumbnail(static_copy[1].src_path, r.thumb.data.image.img))
                         ELSE static_copy
    /\ UNCHANGED <<direct, coll, cdirect, pc, target, snapshot, results, ncalls>>

Thumbnail_apply ==
    /\ Idle /\ thumb.live /\ PxRoom(thumb.data, thumb.ops)
    /\ \E r \in {Thumbnail_apply_fn(thumb)} :
       /\ thumb' = r.thumb
       /\ last' = [Called("apply", r.res) EXCEPT !.err = r.err, !.before = thumb]
    /\ UNCHANGED direct
    /\ CollUnchanged

\* a store_keep that runs the queue over the buffer before it encodes
Thumbnail_store_keep_fn_applying(t, tgt) ==
    Only({ [thumb |-> [t EXCEPT !.data = r.data],
            res |-> IF r.ok THEN "Ok" ELSE "StoreError",
            ferr |-> r.err, paths |-> r.paths, written |-> r.written]
           : r \in {Target_store(tgt, apply_ops_list(t.data, t.ops).data, None)} })

\* Thumbnail::store_keep as a function of the handle
Thumbnail_store_keep_fn(t, tgt) ==
    Only({ [thumb |-> [t EXCEPT !.data = r.data],
            res |-> IF r.ok THEN "Ok" ELSE "StoreError",
            ferr |-> r.err, paths |-> r.paths, written |-> r.written]
           : r \in {Target_store(tgt, t.data, None)} })

\* GenericThumbnail::store_keep for Thumbnail
Thumbnail_store_keep(tgt) ==
    /\ Idle /\ thumb.live
    /\ \E r \in {Thumbnail_store_keep_fn(thumb, tgt)} :
       /\ thumb' = r.thumb
       /\ last' = [Called("store_keep", r.res) EXCEPT !.ferr = r.ferr, !.paths = r.paths,
                                                     !.written = r.written, !.before = thumb,
                                                     !.tgt = tgt]
    /\ UNCHANGED direct
    /\ CollUnchanged

\* GenericThumbnail::store for Thumbnail: the handle is moved into the call
Thumbnail_store(tgt) ==
    /\ Idle /\ thumb.live
    /\ \E r \in {Thumbnail_store_keep_fn(thumb, tgt)} :
       last' = [Called("store", r.res) EXCEPT !.ferr = r.ferr, !.paths = r.paths,
                                                !.written = r.written, !.before = thumb,
                                                !.tgt = tgt]
    /\ thumb' = NoThumb
    /\ direct' = NoDirect
    /\ CollUnchanged

\* Thumbnail::apply_store_keep as a function of the handle: apply()?, then store_keep
Thumbnail_apply_store_keep_fn(t, tgt) ==
    Only({ IF a.res # "Ok"
           THEN [thumb |-> a.thumb, res |-> a.res, err |-> a.err,
                 ferr |-> FileError("None", Path("", <<>>)), paths |-> <<>>, written |-> <<>>]
           ELSE Only({ [thumb |-> s.thumb, res |-> s.res, err |-> NoOp,
                        ferr |-> s.ferr, paths |-> s.paths, written |-> s.written]
                       : s \in {Thumbnail_store_keep_fn(a.thumb, tgt)} })
           : a \in {Thumbnail_apply_fn(t)} })

\* GenericThumbnail::apply_store_keep for Thumbnail
Thumbnail_apply_store_keep(tgt) ==
    /\ Idle /\ thumb.live /\ PxRoom(thumb.data, thumb.ops)
    /\ \E r \in {Thumbnail_apply_store_keep_fn(thumb, tgt)} :
       /\ thumb' = r.thumb
       /\ last' = [Called("apply_store_keep", r.res) EXCEPT !.err = r.err, !.ferr = r.ferr,
                       !.paths = r.paths, !.written = r.written, !.before = thumb, !.tgt = tgt]
    /\ UNCHANGED direct
    /\ CollUnchanged

\* GenericThumbnail::apply_store for Thumbnail: the handle is moved into the call
Thumbnail_apply_store(tgt) ==
    /\ Idle /\ thumb.live /\ PxRoom(thumb.data, thumb.ops)
    /\ \E r \in {Thumbnail_apply_store_keep_fn(thumb, tgt)} :
       last' = [Called("apply_store", r.res) EXCEPT !.err = r.err, !.ferr = r.ferr,
                       !.paths = r.paths, !.written = r.written, !.before = thumb, !.tgt = tgt]
    /\ thumb' = NoThumb
    /\ direct' = NoDirect
    /\ CollUnchanged

\* Thumbnail::clone_static_copy; keep tells whether the caller holds on to the
\* StaticThumbnail it got or drops it (a caller keeps one StaticThumbnail)
Thumbnail_clone_static_copy(keep) ==
    /\ Idle /\ thumb.live
    /\ keep => static_copy = None
    /\ \E r \in {get_dyn_image(thumb.data)} :
       /\ thumb' = [thumb EXCEPT !.data = r.data]
       /\ last' = [Called("clone_static_copy", IF r.ok THEN "Some" ELSE "None")
                       EXCEPT !.before = thumb,
                              !.ret = IF r.ok THEN ThumbnailData(thumb.data.path, r.data.image, 0) ELSE NoData]
       /\ static_copy' = IF keep /\ r.ok
                         THEN Some(StaticThumbnail(thumb.data.path, r.data.image.img))
                         ELSE static_copy
    /\ UNCHANGED <<direct, coll, cdirect, pc, target, snapshot, results, ncalls>>

\* Thumbnail::try_clone_and_load
Thumbnail_try_clone_and_load ==
    /\ Idle /\ thumb.live
    /\ \E r \in {ThumbnailData_try_clone_and_load(thumb.data)} :
       /\ thumb' = [thumb EXCEPT !.data = r.data]
       /\ last' = [Called("try_clone_and_load", IF r.ok THEN "Ok" ELSE "UnknownError")
                       EXCEPT !.before = thumb, !.ret = r.clone,
                              !.retops = IF r.ok THEN thumb.ops ELSE <<>>]
    /\ UNCHANGED direct
    /\ CollUnchanged

Init ==
    /\ thumb = NoThumb
    /\ direct = NoDirect
    /\ coll = ThumbnailCollection(<<>>, <<>>)
    /\ cdirect = <<>>
    /\ pc = "building"
    /\ target = NoTarget
    /\ snapshot = <<>>
    /\ results = <<>>
    /\ ncalls = 0
    /\ static_copy = None
    /\ last = NoLast

\* the life of a single Thumbnail
Next ==
    \/ \E path \in SrcPaths : Thumbnail_load(path)
    \/ \E op \in ThumbOps : Thumbnail_add_op(op)
    \/ Thumbnail_apply
    \/ \E tgt \in Targets : Thumbnail_store_keep(tgt)
    \/ \E tgt \in Targets : Thumbnail_store(tgt)
    \/ \E tgt \in Targets : Thumbnail_apply_store_keep(tgt)
    \/ \E tgt \in Targets : Thumbnail_apply_store(tgt)
    \/ Thumbnail_clone_static_copy(FALSE)
    \/ Thumbnail_try_clone_and_load

Spec == Init /\ [][Next]_vars

(***************************************************************************)
(* ThumbnailCollectionBuilder and ThumbnailCollection                      *)
(***************************************************************************)
\* a worker's result for one member; st is "Pending" until the worker has run
Pending == [st |-> "Pending", res |-> "None", err |-> NoOp, ferr |-> FileError("None", Path("", <<>>)),
            paths |-> <<>>, written |-> <<>>]
Done(res, err, ferr, paths, written) ==
    [st |-> "Done", res |-> res, err |-> err, ferr |-> ferr, paths |-> paths, written |-> written]

Members == 1..Len(coll.images)

ThumbUnchanged == UNCHANGED <<thumb, direct, static_copy>>

\* ThumbnailCollectionBuilder::add_path
ThumbnailCollectionBuilder_add_path(path) ==
    /\ pc = "building" /\ Len(coll.images) < MaxImages
    /\ \E r \in {ThumbnailData_load(path)} :
       /\ coll' = IF r.ok THEN [coll EXCEPT !.images = Append(@, r.data)] ELSE coll
       /\ cdirect' = IF r.ok THEN Append(cdirect, DirectOf(path)) ELSE cdirect
       /\ last' = [Called("add_path", IF r.ok THEN "Ok" ELSE r.err.tag)
                       EXCEPT !.arg = path, !.ferr = r.err, !.cbefore = coll]
    /\ UNCHANGED <<pc, target, snapshot, results, ncalls>>
    /\ ThumbUnchanged

\* globwalk::glob: a malformed pattern is refused; a pattern that parses
\* gives the entries of the walk, each a matched path or, for an entry the
\* walk could not read, nothing
globwalk_glob(glob) ==
    CASE glob = "in/[" -> [ok |-> FALSE, entries |-> {}]
      [] glob = "in/none*" -> [ok |-> TRUE, entries |-> {}]
      [] glob = "in/{photo,deep}.png" -> [ok |-> TRUE, entries |-> {Some(PathRgb), Some(PathDeep)}]
      [] glob = "in/{photo,notes}.*" -> [ok |-> TRUE, entries |-> {Some(PathRgb), Some(PathText)}]
      [] glob = "in/**/deep.png" -> [ok |-> TRUE, entries |-> {Some(PathDeep), None}]

Globs == {"in/[", "in/none*", "in/{photo,deep}.png", "in/{photo,notes}.*", "in/**/deep.png"}

\* the orders in which a walk can yield its entries
Orders(entries) ==
    { walk \in [1..Cardinality(entries) -> entries] :
        \A a, b \in DOMAIN walk : a # b => walk[a] # walk[b] }

\* an add_glob that pushes every loaded file to the images at once
RECURSIVE add_glob_loop_pushing(_, _, _)
add_glob_loop_pushing(walk, i, new_thumbs) ==
    IF i > Len(walk) THEN [ok |-> TRUE, err |-> FileError("None", Path("", <<>>)), new_thumbs |-> new_thumbs]
    ELSE IF walk[i] = None THEN add_glob_loop_pushing(walk, i + 1, new_thumbs)
    ELSE Only({ IF ~r.ok THEN [ok |-> FALSE, err |-> r.err, new_thumbs |-> new_thumbs]
                ELSE add_glob_loop_pushing(walk, i + 1, Append(new_thumbs, r.data))
                : r \in {ThumbnailData_load(walk[i][1])} })

\* the loop of add_glob over walk[i..]: entries that are no Ok are passed
\* over, a file is loaded and pushed to new_thumbs, the first load that fails
\* ends the call and new_thumbs is dropped
RECURSIVE add_glob_loop(_, _, _)
add_glob_loop(walk, i, new_thumbs) ==
    IF i > Len(walk) THEN [ok |-> TRUE, err |-> FileError("None", Path("", <<>>)), new_thumbs |-> new_thumbs]
    ELSE IF walk[i] = None THEN add_glob_loop(walk, i + 1, new_thumbs)
    ELSE Only({ IF ~r.ok THEN [ok |-> FALSE, err |-> r.err, new_thumbs |-> <<>>]
                ELSE add_glob_loop(walk, i + 1, Append(new_thumbs, r.data))
                : r \in {ThumbnailData_load(walk[i][1])} })

\* ThumbnailCollectionBuilder::add_glob
ThumbnailCollectionBuilder_add_glob(glob) ==
    /\ pc = "building"
    /\ \E g \in {globwalk_glob(glob)} :
          IF ~g.ok
          THEN /\ last' = [Called("add_glob", "GlobError")
                               EXCEPT !.glob = glob, !.cbefore = coll,
                                      !.ferr = FileError("GlobError", Path("", <<>>))]
               /\ UNCHANGED <<coll, cdirect>>
          ELSE \E walk \in Orders(g.entries) : \E r \in {add_glob_loop(walk, 1, <<>>)} :
               /\ Len(coll.images) + Len(r.new_thumbs) <= MaxImages
               /\ coll' = [coll EXCEPT !.images = @ \o r.new_thumbs]
               /\ cdirect' = cdirect \o [k \in DOMAIN r.new_thumbs |-> DirectOf(r.new_thumbs[k].path)]
               /\ last' = [Called("add_glob", IF r.ok THEN "Ok" ELSE r.err.tag)
                               EXCEPT !.glob = glob, !.walk = walk, !.cbefore = coll, !.ferr = r.err]
    /\ UNCHANGED <<pc, target, snapshot, results, ncalls>>
    /\ ThumbUnchanged

\* an add_thumb that takes the Thumbnail's queue over into the shared one
ThumbnailCollectionBuilder_add_thumb_with_ops ==
    /\ pc = "building" /\ thumb.live /\ Len(coll.images) < MaxImages
    /\ Len(coll.ops) + Len(thumb.ops) <= MaxOps
    /\ coll' = [coll EXCEPT !.images = Append(@, thumb.data), !.ops = @ \o thumb.ops]
    /\ cdirect' = Append(cdirect, IF IsResident(thumb.data)
                                  THEN [valid |-> TRUE, img |-> thumb.data.image.img]
                                  ELSE DirectOf(thumb.data.path))
    /\ thumb' = NoThumb
    /\ direct' = NoDirect
    /\ last' = [Called("add_thumb", "Ok") EXCEPT !.before = thumb, !.cbefore = coll]
    /\ UNCHANGED <<pc, target, snapshot, results, ncalls, static_copy>>

\* ThumbnailCollectionBuilder::add_thumb: thumb.into_data() is pushed, the
\* Thumbnail and its queue are gone
ThumbnailCollectionBuilder_add_thumb ==
    /\ pc = "building" /\ thumb.live /\ Len(coll.images) < MaxImages
    /\ coll' = [coll EXCEPT !.images = Append(@, thumb.data)]
    /\ cdirect' = Append(cdirect, IF IsResident(thumb.data)
                                  THEN [valid |-> TRUE, img |-> thumb.data.image.img]
                                  ELSE DirectOf(thumb.data.path))
    /\ thumb' = NoThumb
    /\ direct' = NoDirect
    /\ last' = [Called("add_thumb", "Ok") EXCEPT !.before = thumb, !.cbefore = coll]
    /\ UNCHANGED <<pc, target, snapshot, results, ncalls, static_copy>>

\* ThumbnailCollectionBuilder::finalize
ThumbnailCollectionBuilder_finalize ==
    /\ pc = "building"
    /\ pc' = "idle"
    /\ last' = [Called("finalize", "Ok") EXCEPT !.cbefore = coll]
    /\ UNCHANGED <<coll, cdirect, target, snapshot, results, ncalls>>
    /\ ThumbUnchanged

\* ThumbnailCollectionBuilder::new, once the previous collection is gone
ThumbnailCollectionBuilder_new ==
    /\ pc = "gone"
    /\ pc' = "building"
    /\ coll' = ThumbnailCollection(<<>>, <<>>)
    /\ cdirect' = <<>>
    /\ target' = NoTarget
    /\ snapshot' = <<>>
    /\ results' = <<>>
    /\ ncalls' = 0
    /\ last' = Called("new", "Ok")
    /\ ThumbUnchanged

\* OperationContainer::add_op for ThumbnailCollection
ThumbnailCollection_add_op(op) ==
    /\ pc = "idle" /\ Len(coll.ops) < MaxOps
    /\ coll' = [coll EXCEPT !.ops = Append(@, op)]
    /\ cdirect' = [i \in Members |-> DirectApply(cdirect[i], op)]
    /\ last' = [Called("add_op", "Ok") EXCEPT !.cbefore = coll]
    \* the locals of the call before are gone
    /\ target' = NoTarget /\ snapshot' = <<>> /\ results' = <<>>
    /\ UNCHANGED <<pc, ncalls>>
    /\ ThumbUnchanged

\* the head of apply, apply_store_keep and apply_store: `let ops =
\* self.ops.clone(); self.ops.clear();`, then the members are handed to the workers
Fanout_begin(call, tgt, ops, cleared) ==
    /\ pc = "idle" /\ ncalls < MaxCalls
    /\ \A i \in Members : PxRoom(coll.images[i], coll.ops)
    /\ ncalls' = ncalls + 1
    /\ pc' = call
    /\ target' = tgt
    /\ snapshot' = ops
    /\ coll' = [coll EXCEPT !.ops = cleared]
    /\ results' = [i \in Members |-> Pending]
    /\ last' = [Called(call, "Running") EXCEPT !.cbefore = coll]
    /\ UNCHANGED cdirect
    /\ ThumbUnchanged

\* a head of apply that takes the snapshot and leaves the shared queue as it is
ThumbnailCollection_apply_begin_keeping == Fanout_begin("apply", NoTarget, coll.ops, coll.ops)

ThumbnailCollection_apply_begin == Fanout_begin("apply", NoTarget, coll.ops, <<>>)
ThumbnailCollection_apply_store_keep_begin(tgt) == Fanout_begin("apply_store_keep", tgt, coll.ops, <<>>)
ThumbnailCollection_apply_store_begin(tgt) == Fanout_begin("apply_store", tgt, coll.ops, <<>>)
\* store_keep and store take no snapshot and leave the queue alone
ThumbnailCollection_store_keep_begin(tgt) == Fanout_begin("store_keep", tgt, <<>>, coll.ops)
ThumbnailCollection_store_begin(tgt) == Fanout_begin("store", tgt, <<>>, coll.ops)

\* the closure of apply: |data| data.apply_ops_list(&ops)
apply_closure(data, ops) ==
    Only({ [data |-> r.data, result |-> Done(r.res, r.err, FileError("None", Path("", <<>>)), <<>>, <<>>)]
           : r \in {apply_ops_list(data, ops)} })

\* a closure of store_keep that counts the members from 1
store_closure_from_one(n, data, tgt) ==
    Only({ [data |-> s.data,
            result |-> Done(IF s.ok THEN "Ok" ELSE "StoreError", NoOp, s.err, s.paths, s.written)]
           : s \in {Target_store(tgt, data, Some(n + 1))} })

\* a closure of store_keep that hands every member the count 0
store_closure_same_count(n, data, tgt) ==
    Only({ [data |-> s.data,
            result |-> Done(IF s.ok THEN "Ok" ELSE "StoreError", NoOp, s.err, s.paths, s.written)]
           : s \in {Target_store(tgt, data, Some(0))} })

\* the closure of store_keep: |(n, data)| target.store(data, Some(n as u32))
store_closure(n, data, tgt) ==
    Only({ [data |-> s.data,
            result |-> Done(IF s.ok THEN "Ok" ELSE "StoreError", NoOp, s.err, s.paths, s.written)]
           : s \in {Target_store(tgt, data, Some(n))} })

\* a closure of apply_store_keep that stores what an operation's failure left
apply_store_closure_storing_anyway(n, data, ops, tgt) ==
    Only({ IF a.result.res \notin {"Ok", "OperationError"} THEN a
           ELSE Only({ [data |-> s.data,
                        result |-> Done(IF a.result.res # "Ok" THEN a.result.res
                                        ELSE IF s.result.res = "Ok" THEN "Ok" ELSE "StoreError",
                                        a.result.err, s.result.ferr, s.result.paths, s.result.written)]
                       : s \in {store_closure(n, a.data, tgt)} })
           : a \in {apply_closure(data, ops)} })

\* the closure of apply_store_keep: apply_ops_list, return its error, else target.store
apply_store_closure(n, data, ops, tgt) ==
    Only({ IF a.result.res # "Ok" THEN a ELSE store_closure(n, a.data, tgt)
           : a \in {apply_closure(data, ops)} })

\* a worker that gives up on its member once another member's operation has
\* failed, and reports that member's failure
Worker_halting(i) ==
    /\ pc \in {"apply", "apply_store_keep", "apply_store", "store_keep", "store"}
    /\ i \in Members /\ results[i].st = "Pending"
    /\ \E r \in { IF \E j \in Members : results[j].res = "OperationError"
                   THEN [data |-> coll.images[i],
                         result |-> results[CHOOSE j \in Members : results[j].res = "OperationError"]]
                   ELSE CASE pc = "apply" -> apply_closure(coll.images[i], snapshot)
                          [] pc \in {"apply_store_keep", "apply_store"} ->
                                 apply_store_closure(i - 1, coll.images[i], snapshot, target)
                          [] pc \in {"store_keep", "store"} ->
                                 store_closure(i - 1, coll.images[i], target) } :
       /\ coll' = [coll EXCEPT !.images[i] = r.data]
       /\ results' = [results EXCEPT ![i] = r.result]
    /\ UNCHANGED <<cdirect, pc, target, snapshot, ncalls, last>>
    /\ ThumbUnchanged

\* workers that take the members at the first two positions only, one member
\* for each thread of a pool of two
Worker_pool_of_two(i) ==
    /\ pc \in {"apply", "apply_store_keep", "apply_store", "store_keep", "store"}
    /\ i \in Members /\ i <= 2 /\ results[i].st = "Pending"
    /\ \E r \in { CASE pc = "apply" -> apply_closure(coll.images[i], snapshot)
                    [] pc \in {"apply_store_keep", "apply_store"} ->
                           apply_store_closure(i - 1, coll.images[i], snapshot, target)
                    [] pc \in {"store_keep", "store"} -> store_closure(i - 1, coll.images[i], target) } :
       /\ coll' = [coll EXCEPT !.images[i] = r.data]
       /\ results' = [results EXCEPT ![i] = r.result]
    /\ UNCHANGED <<cdirect, pc, target, snapshot, ncalls, last>>
    /\ ThumbUnchanged

\* a worker that also takes a member another worker has finished
Worker_again(i) ==
    /\ pc \in {"apply", "apply_store_keep", "apply_store", "store_keep", "store"}
    /\ i \in Members /\ PxRoom(coll.images[i], snapshot)
    /\ \E r \in { CASE pc = "apply" -> apply_closure(coll.images[i], snapshot)
                    [] pc \in {"apply_store_keep", "apply_store"} ->
                           apply_store_closure(i - 1, coll.images[i], snapshot, target)
                    [] pc \in {"store_keep", "store"} -> store_closure(i - 1, coll.images[i], target) } :
       /\ coll' = [coll EXCEPT !.images[i] = r.data]
       /\ results' = [results EXCEPT ![i] = r.result]
    /\ UNCHANGED <<cdirect, pc, target, snapshot, ncalls, last>>
    /\ ThumbUnchanged

\* one worker of par_iter_mut() runs the call's closure on member i (index i - 1)
Worker(i) ==
    /\ pc \in {"apply", "apply_store_keep", "apply_store", "store_keep", "store"}
    /\ i \in Members /\ results[i].st = "Pending"
    /\ \E r \in { CASE pc = "apply" -> apply_closure(coll.images[i], snapshot)
                    [] pc \in {"apply_store_keep", "apply_store"} ->
                           apply_store_closure(i - 1, coll.images[i], snapshot, target)
                    [] pc \in {"store_keep", "store"} -> store_closure(i - 1, coll.images[i], target) } :
       /\ coll' = [coll EXCEPT !.images[i] = r.data]
       /\ results' = [results EXCEPT ![i] = r.result]
    /\ UNCHANGED <<cdirect, pc, target, snapshot, ncalls, last>>
    /\ ThumbUnchanged

AllDone == \A i \in Members : results[i].st = "Done"

\* a loop over the results that puts each member's paths before those it has
RECURSIVE ok_paths_backwards(_, _)
ok_paths_backwards(rs, i) ==
    IF i > Len(rs) THEN <<>>
    ELSE ok_paths_backwards(rs, i + 1) \o (IF rs[i].res = "Ok" THEN rs[i].paths ELSE <<>>)

\* `Ok(mut p) => paths.append(&mut p)` over results[i..]
RECURSIVE ok_paths(_, _)
ok_paths(rs, i) ==
    IF i > Len(rs) THEN <<>>
    ELSE (IF rs[i].res = "Ok" THEN rs[i].paths ELSE <<>>) \o ok_paths(rs, i + 1)

\* `ApplyError::OperationError(op_err) => operation_errors.push(op_err)` over results[i..]
RECURSIVE op_errors(_, _)
op_errors(rs, i) ==
    IF i > Len(rs) THEN <<>>
    ELSE (IF rs[i].res = "OperationError" THEN <<rs[i].err>> ELSE <<>>) \o op_errors(rs, i + 1)

\* `ApplyError::StoreError(store_err) => store_errors.push(store_err)` over results[i..]
RECURSIVE st_errors(_, _)
st_errors(rs, i) ==
    IF i > Len(rs) THEN <<>>
    ELSE (IF rs[i].res = "StoreError" THEN <<rs[i].ferr>> ELSE <<>>) \o st_errors(rs, i + 1)

\* the files the workers wrote, over results[i..]
RECURSIVE all_written(_, _)
all_written(rs, i) ==
    IF i > Len(rs) THEN <<>> ELSE rs[i].written \o all_written(rs, i + 1)

CallResult(res, paths, store_errors, operation_errors) ==
    [res |-> res, paths |-> paths, store_errors |-> store_errors, operation_errors |-> operation_errors]

\* the tail of ThumbnailCollection::apply: the operation errors are filtered
\* out of the results, and the result of the call is decided
ThumbnailCollection_apply_result(rs) ==
    IF rs = <<>> THEN CallResult("Ok", <<>>, <<>>, <<>>)
    ELSE CallResult("CollectionError", <<>>, <<>>, op_errors(rs, 1))

\* a tail of apply_store_keep that reports the first operation failure only
ThumbnailCollection_apply_store_keep_result_first(rs) ==
    IF st_errors(rs, 1) = <<>> /\ op_errors(rs, 1) = <<>>
    THEN CallResult("Ok", ok_paths(rs, 1), <<>>, <<>>)
    ELSE CallResult("CollectionError", ok_paths(rs, 1), st_errors(rs, 1),
                    IF op_errors(rs, 1) = <<>> THEN <<>> ELSE <<Head(op_errors(rs, 1))>>)

\* the tail of ThumbnailCollection::apply_store_keep
ThumbnailCollection_apply_store_keep_result(rs) ==
    IF st_errors(rs, 1) = <<>> /\ op_errors(rs, 1) = <<>>
    THEN CallResult("Ok", ok_paths(rs, 1), <<>>, <<>>)
    ELSE CallResult("CollectionError", ok_paths(rs, 1), st_errors(rs, 1), op_errors(rs, 1))

\* the tail of ThumbnailCollection::store_keep
ThumbnailCollection_store_keep_result(rs) ==
    IF st_errors(rs, 1) = <<>>
    THEN CallResult("Ok", ok_paths(rs, 1), <<>>, <<>>)
    ELSE CallResult("CollectionError", ok_paths(rs, 1), st_errors(rs, 1), <<>>)

\* collect() has every worker's result: the call returns
Fanout_end(call, r, next_pc) ==
    /\ pc = call /\ AllDone
    /\ pc' = next_pc
    /\ last' = [last EXCEPT !.res = r.res, !.paths = r.paths, !.store_errors = r.store_errors,
                            !.operation_errors = r.operation_errors,
                            !.written = all_written(results, 1)]
    /\ UNCHANGED <<coll, cdirect, target, snapshot, results, ncalls>>
    /\ ThumbUnchanged

ThumbnailCollection_apply_end ==
    Fanout_end("apply", ThumbnailCollection_apply_result(results), "idle")
ThumbnailCollection_apply_store_keep_end ==
    Fanout_end("apply_store_keep", ThumbnailCollection_apply_store_keep_result(results), "idle")
ThumbnailCollection_apply_store_end ==
    Fanout_end("apply_store", ThumbnailCollection_apply_store_keep_result(results), "gone")
ThumbnailCollection_store_keep_end ==
    Fanout_end("store_keep", ThumbnailCollection_store_keep_result(results), "idle")
ThumbnailCollection_store_end ==
    Fanout_end("store", ThumbnailCollection_store_keep_result(results), "gone")

\* the life of a ThumbnailCollection
NextColl ==
    \/ \E path \in SrcPaths : ThumbnailCollectionBuilder_add_path(path)
    \/ ThumbnailCollectionBuilder_finalize
    \/ ThumbnailCollectionBuilder_new
    \/ \E op \in Ops : ThumbnailCollection_add_op(op)
    \/ ThumbnailCollection_apply_begin
    \/ \E tgt \in CollTargets : ThumbnailCollection_apply_store_keep_begin(tgt)
    \/ \E tgt \in CollTargets : ThumbnailCollection_apply_store_begin(tgt)
    \/ \E tgt \in CollTargets : ThumbnailCollection_store_keep_begin(tgt)
    \/ \E tgt \in CollTargets : ThumbnailCollection_store_begin(tgt)
    \/ \E i \in 1..MaxImages : Worker(i)
    \/ ThumbnailCollection_apply_end
    \/ ThumbnailCollection_apply_store_keep_end
    \/ ThumbnailCollection_apply_store_end
    \/ ThumbnailCollection_store_keep_end
    \/ ThumbnailCollection_store_end

SpecColl == Init /\ [][NextColl]_vars

\* the steps of a running fan-out call: the workers' and the return
FanoutRuns ==
    \/ \E i \in 1..MaxImages : Worker(i)
    \/ ThumbnailCollection_apply_end
    \/ ThumbnailCollection_apply_store_keep_end
    \/ ThumbnailCollection_apply_store_end
    \/ ThumbnailCollection_store_keep_end
    \/ ThumbnailCollection_store_end

\* the thread pool keeps running closures while members are pending, and the
\* calling thread goes on once collect() is complete
SpecCollFair == SpecColl /\ WF_vars(FanoutRuns)

\* a caller that builds a collection from paths, globs and Thumbnails it
\* loaded, queued operations on and applied, and then applies the collection
NextBuilder ==
    \/ (pc = "building" /\ \E path \in {PathRgb} : Thumbnail_load(path))
    \/ (pc = "building" /\ Thumbnail_add_op(CropBeyond))
    \/ (pc = "building" /\ Thumbnail_apply)
    \/ \E path \in {PathBroken} : ThumbnailCollectionBuilder_add_path(path)
    \/ \E glob \in Globs : ThumbnailCollectionBuilder_add_glob(glob)
    \/ ThumbnailCollectionBuilder_add_thumb
    \/ (~thumb.live /\ ThumbnailCollectionBuilder_finalize)
    \/ \E op \in {InvertOp} : ThumbnailCollection_add_op(op)
    \/ ThumbnailCollection_apply_begin
    \/ \E i \in 1..MaxImages : Worker(i)
    \/ ThumbnailCollection_apply_end

SpecBuilder == Init /\ [][NextBuilder]_vars

(***************************************************************************)
(* A caller that keeps a StaticThumbnail and combines with it              *)
(***************************************************************************)
\* the operations this caller queues: two that change the buffer and, once a
\* StaticThumbnail is held, Combine with a clone of it as overlay, at an
\* anchor that is accepted and at one that is refused
StaticOps ==
    {InvertOp, CropBeyond}
    \cup { CombineOp(st, pos) : st \in Range(static_copy),
                                pos \in {BoxPosition("TopLeft", 0, 0), BoxPosition("TopRight", 0, 0)} }

NextStatic ==
    \/ \E path \in {PathRgb, PathDeep, PathBroken} : Thumbnail_load(path)
    \/ \E op \in StaticOps : Thumbnail_add_op(op)
    \/ Thumbnail_apply
    \/ \E tgt \in {<<TargetItem(DstOut, "Png")>>} : Thumbnail_apply_store(tgt)
    \/ Thumbnail_clone_static_copy(TRUE)

SpecStatic == Init /\ [][NextStatic]_vars

(***************************************************************************)
(* Target::store and compute_and_create_path on their own                  *)
(***************************************************************************)
\* destinations: an existing directory (written with and without a trailing
\* separator), a missing directory written with a trailing separator, and
\* file paths under a missing directory
StoreNames == {<<"thumb", "JPG">>, <<"thumb", "jpeg">>, <<"thumb", "Tif">>, <<"thumb">>,
               <<"a", "b", "png">>}

StoreDsts ==
    { Dst("out", <<>>, TRUE, sep, TRUE) : sep \in BOOLEAN }
    \cup { Dst("new", <<>>, FALSE, TRUE, mkdir_ok) : mkdir_ok \in BOOLEAN }
    \cup { Dst("new", name, FALSE, FALSE, mkdir_ok) : name \in StoreNames, mkdir_ok \in BOOLEAN }

StoreFormats == {"Jpeg", "Png", "Tiff", "Bmp", "Gif"}
StoreSrcPaths == {PathRgb, PathDeep, PathDotted}
StoreCounts == {None, Some(0), Some(1)}

\* the arguments of one call: a one-item Target, the source and the index
InitStore ==
    /\ thumb = NoThumb
    /\ direct = NoDirect
    /\ coll = ThumbnailCollection(<<>>, <<>>)
    /\ cdirect = <<>>
    /\ pc = "building"
    /\ target = NoTarget
    /\ snapshot = <<>>
    /\ results = <<>>
    /\ ncalls = 0
    /\ static_copy = None
    /\ last \in { [Called("input", "None") EXCEPT !.arg = src, !.count = count,
                                                  !.tgt = <<TargetItem(dst, method)>>]
                   : src \in StoreSrcPaths, count \in StoreCounts,
                     dst \in StoreDsts, method \in StoreFormats }

\* compute_and_create_path(&item.path, &orig_path)
Call_compute_and_create_path ==
    /\ last.call = "input"
    /\ \E r \in {compute_and_create_path(last.tgt[1].path, last.arg)} :
          last' = [last EXCEPT !.call = "compute_and_create_path",
                               !.res = IF r.ok THEN "Ok" ELSE "IoError",
                               !.paths = <<r.path>>, !.created = r.created]
    /\ UNCHANGED <<thumb, direct>>
    /\ CollUnchanged

\* target.store(&mut data, count) on the freshly loaded source
Call_Target_store ==
    /\ last.call = "input"
    /\ \E r \in {Target_store(last.tgt, ThumbnailData_load(last.arg).data, last.count)} :
          last' = [last EXCEPT !.call = "Target_store",
                               !.res = IF r.ok THEN "Ok" ELSE r.err.tag,
                               !.ferr = r.err, !.paths = r.paths, !.written = r.written]
    /\ UNCHANGED <<thumb, direct>>
    /\ CollUnchanged

NextStore ==
    \/ Call_compute_and_create_path
    \/ Call_Target_store

SpecStore == InitStore /\ [][NextStore]_vars

(***************************************************************************)
(* The operations on their own, on buffers with pixel values and sizes     *)
(***************************************************************************)
Black == <<0, 0, 0, 255>>
White == <<255, 255, 255, 255>>
Magenta == <<255, 0, 255, 255>>
Clear == <<255, 0, 255, 0>>

\* the arguments of a call of an operation's apply, and the build it runs in
OpInput(op, image, overflow_checks) ==
    [call |-> "input", op |-> op, image |-> image, overflow_checks |-> overflow_checks,
     out |-> OpOk(image)]

\* Combine: overlays of up to 2 x 2 pixels, opaque or transparent, at every
\* anchor, near the origin and near the largest u32, over backgrounds of
\* 2 x 2 pixels in the layouts RGB, RGBA and 16 bit RGB
CombineInputs ==
    { OpInput(CombineOp(StaticThumbnail(PathRgb, Uniform(olayout, ow, oh, colour)),
                        BoxPosition(anchor, x, y)),
              Uniform(layout, 2, 2, back), overflow_checks)
      : olayout \in {"Rgba8", "Rgb8"}, ow \in 1..2, oh \in 1..2, colour \in {Magenta, Clear},
        anchor \in {"TopLeft", "TopRight", "BottomLeft", "BottomRight"},
        x \in {0, 1, 2, WordMax}, y \in {0, 1, WordMax},
        layout \in {"Rgb8", "Rgba8", "Rgb16"}, back \in {Black, White},
        overflow_checks \in BOOLEAN }

\* Text: no text, a narrow and a wide one, at every anchor, left of, at and
\* right of the text's extent
TextInputs ==
    { OpInput(TextOp(text, BoxPosition(anchor, x, y)), Uniform(layout, 2, 2, Black), overflow_checks)
      : text \in {<<>>, <<"i">>, <<"W", "i">>},
        anchor \in {"TopLeft", "TopRight", "BottomLeft", "BottomRight"},
        x \in {0, 1, 2, 12, 13, WordMax}, y \in {0, 13, 14, WordMax},
        layout \in {"Rgb8", "Rgb16"}, overflow_checks \in BOOLEAN }

\* an image whose pixel at (x, y) holds x and y, so that a pixel of a cut
\* tells where it came from
Gradient(layout, w, h) == PixelImage(layout, w, h, [c \in Coords(w, h) |-> <<c[1], c[2], 0, 255>>])

\* Crop: ratios from 1:4 to 4:1 and the ratio 0, and a box, on images from
\* 1 x 1 to 8 x 8
CropInputs ==
    { OpInput(CropOp(crop), Gradient("Rgb8", w, h), overflow_checks)
      : crop \in { CropRatio(w_r, h_r) : w_r \in {0, 1, 2, 4}, h_r \in {1, 2, 4} }
                  \cup {CropBox(1, 0, 2, 8)},
        w \in {1, 2, 4, 8}, h \in {1, 2, 4, 8}, overflow_checks \in BOOLEAN }

\* Resize: every variant with small and with the largest values, with and
\* without a filter, on RGB, RGBA and 16 bit images from 1 x 1 to 4 x 4
ResizeInputs ==
    { OpInput(ResizeOp(size, filter), Uniform(layout, w, h, White), overflow_checks)
      : size \in { Height(y) : y \in {1, 2, 8, WordMax} }
                  \cup { Width(x) : x \in {1, 2, 8, WordMax} }
                  \cup {BoundingBox(2, 2), ExactBox(1, 1)},
        filter \in {"None", "Nearest"},
        layout \in {"Rgb8", "Rgba8", "Rgb16"},
        w \in {1, 2, 4}, h \in {1, 2, 4}, overflow_checks \in BOOLEAN }

OpInputs == CombineInputs \cup TextInputs \cup CropInputs \cup ResizeInputs

InitOps ==
    /\ thumb = NoThumb
    /\ direct = NoDirect
    /\ coll = ThumbnailCollection(<<>>, <<>>)
    /\ cdirect = <<>>
    /\ pc = "building"
    /\ target = NoTarget
    /\ snapshot = <<>>
    /\ results = <<>>
    /\ ncalls = 0
    /\ static_copy = None
    /\ last \in OpInputs

\* the caller's variables, which a call of an operation leaves alone
OpsFrame == UNCHANGED <<thumb, direct, coll, cdirect, pc, target, snapshot, results, ncalls,
                        static_copy>>

\* combine_op.apply(&mut image)
Call_CombineOp_apply ==
    /\ last.call = "input" /\ last.op.kind = "Combine"
    /\ \E r \in {CombineOp_apply_pixels(last.op, last.image, last.overflow_checks)} :
          last' = [last EXCEPT !.call = "apply", !.out = r]
    /\ OpsFrame

\* text_op.apply(&mut image)
Call_TextOp_apply ==
    /\ last.call = "input" /\ last.op.kind = "Text"
    /\ \E r \in {TextOp_apply_pixels(last.op, last.image)} :
          last' = [last EXCEPT !.call = "apply", !.out = r]
    /\ OpsFrame

\* crop_op.apply(&mut image)
Call_CropOp_apply ==
    /\ last.call = "input" /\ last.op.kind = "Crop"
    /\ \E r \in {CropOp_apply_pixels(last.op, last.image)} :
          last' = [last EXCEPT !.call = "apply", !.out = r]
    /\ OpsFrame

\* resize_op.apply(&mut image)
Call_ResizeOp_apply ==
    /\ last.call = "input" /\ last.op.kind = "Resize"
    /\ \E r \in {ResizeOp_apply_pixels(last.op, last.image, last.overflow_checks)} :
          last' = [last EXCEPT !.call = "apply", !.out = r]
    /\ OpsFrame

NextOps ==
    \/ Call_CombineOp_apply
    \/ Call_TextOp_apply
    \/ Call_CropOp_apply
    \/ Call_ResizeOp_apply

SpecOps == InitOps /\ [][NextOps]_vars

\* a caller that works with one handle at a time: with a single Thumbnail
\* before the collection is built, with the collection while no Thumbnail is held
NextAll ==
    \/ (pc = "building" /\ coll.images = <<>> /\ Next)
    \/ (~thumb.live /\ NextColl)

SpecAll == Init /\ [][NextAll]_vars


(***************************************************************************)
(* Properties of a single Thumbnail, checked under Spec                    *)
(***************************************************************************)
\* the pixel history a handle's buffer has once it is resident
PxBefore(data) == IF IsResident(data) THEN data.image.img.px ELSE <<>>

\* C1: when apply() of a single Thumbnail succeeds, the buffer is the original
\* buffer with the queued operations applied one at a time in the order they
\* were queued: it equals the buffer every operation was applied to directly,
\* and its pixels went through exactly the queue, head first, on top of what
\* they had gone through before the call.
C1_ApplyIsOrderedFold ==
    (last.call = "apply" /\ last.res = "Ok") =>
        /\ IsResident(thumb.data)
        /\ direct.valid
        /\ thumb.data.image.img = direct.img
        /\ thumb.data.image.img.px = PxBefore(last.before.data) \o last.before.ops

\* apply() succeeded on a queue of two different operations
C1_Witness ==
    /\ last.call = "apply" /\ last.res = "Ok"
    /\ Len(last.before.ops) = 2
    /\ last.before.ops[1] # last.before.ops[2]

\* C2: apply() of a single Thumbnail stops at the first failing operation: the
\* error names the operation at some position k of the queue, the buffer went
\* through exactly the operations before position k (they are kept, the ones
\* after k never ran), operation k fails on that buffer, and the queue is left
\* as it was; the queue is empty after a successful apply().
C2_ApplyStopsAtFirstFailure ==
    last.call = "apply" =>
        /\ last.res = "OperationError" =>
              /\ IsResident(thumb.data)
              /\ \E k \in 1..Len(last.before.ops) :
                    /\ last.err = last.before.ops[k]
                    /\ thumb.data.image.img.px =
                           PxBefore(last.before.data) \o SubSeq(last.before.ops, 1, k - 1)
                    /\ ~Operation_apply(last.before.ops[k], thumb.data.image.img).ok
        /\ last.res # "Ok" => thumb.ops = last.before.ops
        /\ last.res = "Ok" => thumb.ops = <<>>

\* apply() failed in the second of two operations, after the first one ran
C2_Witness ==
    /\ last.call = "apply" /\ last.res = "OperationError"
    /\ Len(last.before.ops) = 2
    /\ last.err = last.before.ops[2]
    /\ last.before.ops[1] # last.before.ops[2]
    /\ thumb.data.image.img.px = PxBefore(last.before.data) \o <<last.before.ops[1]>>

\* C8: a call on a handle whose image is resident leaves it resident and never
\* runs the decoder again; the calls that only read the buffer (queueing,
\* store_keep, clone_static_copy, try_clone_and_load) leave the buffer as it
\* is, and the clone calls hand out that same buffer.
C8_ResidentStaysResident ==
    (last.before.live /\ IsResident(last.before.data) /\ thumb.live) =>
        /\ IsResident(thumb.data)
        /\ thumb.data.decoded = last.before.data.decoded
        /\ thumb.data.decoded <= 1
        /\ last.call \in {"add_op", "store_keep", "clone_static_copy", "try_clone_and_load"} =>
               thumb.data = last.before.data
        /\ last.call \in {"clone_static_copy", "try_clone_and_load"} =>
               last.ret.image = last.before.data.image

\* a resident buffer that operations went over was read by a clone call
C8_Witness ==
    /\ last.call = "try_clone_and_load" /\ last.res = "Ok"
    /\ IsResident(last.before.data)
    /\ last.before.data.image.img.px # <<>>
    /\ thumb.data.decoded = 1

\* C9: apply() on a handle whose file cannot be decoded returns
\* LoadingImageError; whenever apply() returns LoadingImageError the handle is
\* as it was: still holding the file, the decoder's output nowhere, no
\* operation run and the queue untouched.
C9_DecodeFailureOnApply ==
    last.call = "apply" =>
        /\ (~IsResident(last.before.data) /\ ~FileAt(last.before.data.path).decodes) =>
               last.res = "LoadingImageError"
        /\ last.res = "LoadingImageError" =>
              /\ ~IsResident(thumb.data)
              /\ thumb.data = last.before.data
              /\ thumb.ops = last.before.ops

\* apply() with a queued operation returned LoadingImageError
C9_Witness ==
    /\ last.call = "apply" /\ last.res = "LoadingImageError"
    /\ last.before.ops # <<>>
    /\ ~FileAt(thumb.data.path).decodes

\* C10: load(path) returns NotFound when the path is no regular file and
\* NotSupported when the file opens and no format is recognised; when it
\* succeeds the handle holds the file with the detected format, nothing was
\* decoded and the queue is empty.
C10_Load ==
    last.call = "load" =>
        /\ ~FileAt(last.arg).is_file => (last.res = "NotFound" /\ ~thumb.live)
        /\ (FileAt(last.arg).is_file /\ FileAt(last.arg).opens /\ FileAt(last.arg).sig = "None") =>
               (last.res = "NotSupported" /\ ~thumb.live)
        /\ last.res = "Ok" =>
              /\ thumb.live
              /\ thumb.data = ThumbnailData(last.arg, ImageData_File(FileAt(last.arg).sig), 0)
              /\ ~IsResident(thumb.data)
              /\ thumb.ops = <<>>

\* load succeeded on a file whose content the decoder will refuse
C10_Witness ==
    /\ last.call = "load" /\ last.res = "Ok"
    /\ last.arg = PathBroken
    /\ thumb.live

\* C11: a queueing call on a Thumbnail returns normally and leaves the handle
\* as it was but for the queue, which is the queue before the call with one
\* operation added at its end: the image data (file or buffer, pixels, decoder
\* runs) is untouched.  The same holds for the shared queue and the members of
\* a ThumbnailCollection.
C11_QueueingAppendsOnly ==
    last.call = "add_op" =>
        /\ last.res = "Ok"
        /\ last.before.live =>
              /\ thumb.live
              /\ \E op \in ThumbOps : thumb.ops = Append(last.before.ops, op)
              /\ thumb.data = last.before.data
        /\ ~last.before.live =>
              /\ \E op \in Ops : coll.ops = Append(last.cbefore.ops, op)
              /\ coll.images = last.cbefore.images

\* an operation was queued behind another one on a handle that still holds
\* the file
C11_Witness ==
    /\ last.call = "add_op" /\ last.before.live
    /\ Len(thumb.ops) = 2 /\ thumb.ops[1] # thumb.ops[2]
    /\ ~IsResident(thumb.data)

\* C12: apply() on a freshly loaded, decodable file whose queue begins with a
\* Crop::Box reaching beyond the image's width or height returns an
\* OperationError naming that crop.
C12_CropBeyondBoundsFails ==
    (/\ last.call = "apply"
     /\ ~IsResident(last.before.data) /\ FileAt(last.before.data.path).decodes
     /\ last.before.ops # <<>>
     /\ last.before.ops[1].kind = "Crop"
     /\ \/ last.before.ops[1].crop.x + last.before.ops[1].crop.width > FileAt(last.before.data.path).w
        \/ last.before.ops[1].crop.y + last.before.ops[1].crop.height > FileAt(last.before.data.path).h)
    => (last.res = "OperationError" /\ last.err = last.before.ops[1])

\* the image a handle stands for: its buffer, or what its file decodes to
CurrentImage(data) == IF IsResident(data) THEN data.image.img ELSE Decode(data.path)

\* data is `before` but for a decoding that store may have forced
SameImage(data, before) ==
    IF IsResident(data) THEN data.image.img = CurrentImage(before) ELSE data = before

\* C13: store and store_keep encode the image as it is and run no queued
\* operation: every file written holds the image the handle stood for when the
\* call began (the decoded file when nothing was applied before), store_keep
\* leaves that image and the queue as they were.  The same holds per member
\* and for the shared queue of a ThumbnailCollection.
C13_StoreRunsNoOperation ==
    last.call \in {"store", "store_keep"} =>
        /\ last.before.live =>
              /\ \A k \in DOMAIN last.written :
                     last.written[k].image = CurrentImage(last.before.data)
              /\ last.call = "store_keep" =>
                     (thumb.ops = last.before.ops /\ SameImage(thumb.data, last.before.data))
        /\ ~last.before.live =>
              /\ coll.ops = last.cbefore.ops
              /\ \A i \in Members :
                    /\ SameImage(coll.images[i], last.cbefore.images[i])
                    /\ \A k \in DOMAIN results[i].written :
                           results[i].written[k].image = CurrentImage(last.cbefore.images[i])

\* store_keep wrote the unmodified image of a handle that never saw apply
\* and has two operations waiting
C13_Witness ==
    /\ last.call = "store_keep" /\ last.res = "Ok" /\ last.before.live
    /\ ~IsResident(last.before.data)
    /\ Len(thumb.ops) = 2
    /\ last.written # <<>>
    /\ last.written[1].image.px = <<>>

\* the paths of the files in written
WrittenPaths(written) == { written[k].path : k \in DOMAIN written }

\* C14: store_keep of a Thumbnail attempts every item of the target: whatever
\* the other items did, an item that can be stored on its own (its path
\* resolves and its encoder takes the image) has its file written.
C14_EveryItemAttempted ==
    (last.call = "store_keep" /\ last.before.live) =>
        \A k \in DOMAIN last.tgt :
            Target_store(<<last.tgt[k]>>, last.before.data, None).ok =>
                Target_store(<<last.tgt[k]>>, last.before.data, None).paths[1]
                    \in WrittenPaths(last.written)

\* C15: compute_and_create_path resolves an existing directory to the
\* directory joined with the source's stem and creates nothing; failing that,
\* a destination written with a trailing separator is created as a directory
\* and joined with the source's stem; failing that, the destination's parent
\* chain is created and the destination is the path as it stands.  It fails
\* only when a directory could not be created.
C15_PathResolution ==
    last.call = "compute_and_create_path" =>
        LET dst == last.tgt[1].path
            stem == SubSeq(last.arg.name, 1, Len(last.arg.name) - 1)
        IN  /\ dst.is_dir =>
                  (last.res = "Ok" /\ last.paths = <<Path(dst.dir, stem)>> /\ last.created = <<>>)
            /\ (~dst.is_dir /\ dst.sep /\ last.res = "Ok") =>
                  (last.paths = <<Path(dst.dir, stem)>> /\ last.created = <<"dst">>)
            /\ (~dst.is_dir /\ ~dst.sep /\ last.res = "Ok") =>
                  (last.paths = <<Path(dst.dir, dst.name)>> /\ last.created = <<"parent">>)
            /\ last.res = "Ok" <=> (dst.is_dir \/ dst.mkdir_ok)

\* a missing directory written with a trailing separator was created and
\* joined with the stem of a source
C15_Witness ==
    /\ last.call = "compute_and_create_path" /\ last.res = "Ok"
    /\ ~last.tgt[1].path.is_dir /\ last.tgt[1].path.sep
    /\ last.created = <<"dst">>
    /\ last.paths = <<Path("new", <<"photo">>)>>

\* the canonical extension of a target format
CanonicalExt(method) ==
    CASE method = "Jpeg" -> "jpg"
      [] method = "Png" -> "png"
      [] method = "Tiff" -> "tiff"
      [] method = "Bmp" -> "bmp"
      [] method = "Gif" -> "gif"

\* the stem of the source of the last call
SourceStem == SubSeq(last.arg.name, 1, Len(last.arg.name) - 1)

\* C16: a store of a source with stem s into an existing directory d that
\* succeeds returns the path d/s.<canonical extension of the format>, for
\* every source stem
C16_StoreIntoDirectory ==
    (/\ last.call = "Target_store" /\ last.res = "Ok"
     /\ last.tgt[1].path.is_dir /\ last.count = None) =>
        last.paths = <<Path(last.tgt[1].path.dir,
                            Append(SourceStem, CanonicalExt(last.tgt[1].method)))>>

\* the extensions a target format accepts as they stand
AcceptedExt(method) ==
    CASE method = "Jpeg" -> {"jpg", "jpeg"}
      [] method = "Png" -> {"png"}
      [] method = "Tiff" -> {"tiff", "tif"}
      [] method = "Bmp" -> {"bmp"}
      [] method = "Gif" -> {"gif"}

\* the file name a target item resolves to for a source, before any index:
\* the name stays when its extension is accepted, else the extension is
\* replaced by (or, when there is none, set to) the canonical one
ResolvedName(item, src) ==
    LET name == compute_and_create_path(item.path, src).path.name
        ext == extension(Path("", name))
    IN  IF ext # None /\ to_lowercase(ext[1]) \in AcceptedExt(item.method) THEN name
        ELSE IF ext = None THEN Append(name, CanonicalExt(item.method))
        ELSE Append(SubSeq(name, 1, Len(name) - 1), CanonicalExt(item.method))

\* {stem}-{n}.{ext} of a name {stem}.{ext}
IndexedName(name, n) ==
    [name EXCEPT ![Len(name) - 1] = @ \o "-" \o ToString(n)]

StoreCalls == {"store_keep", "store", "apply_store_keep", "apply_store"}

\* C17: each path a Collection's store returns for its member at position n
\* (counted from 0) has the file name {stem}-{n}.{ext}, where {stem}.{ext} is
\* the name the target item resolves to; each path the store of a single
\* Thumbnail returns has the name {stem}.{ext} itself
C17_CollectionIndex ==
    /\ \A i \in Members :
          (pc \in StoreCalls /\ results[i].st = "Done" /\ results[i].res = "Ok") =>
              /\ Len(results[i].paths) = Len(target)
              /\ \A k \in DOMAIN target :
                    results[i].paths[k].name =
                        IndexedName(ResolvedName(target[k], coll.images[i].path), i - 1)
    /\ (last.call \in StoreCalls /\ last.before.live /\ last.res = "Ok") =>
              /\ Len(last.paths) = Len(last.tgt)
              /\ \A k \in DOMAIN last.tgt :
                    last.paths[k].name = ResolvedName(last.tgt[k], last.before.data.path)

\* the second member of a Collection was stored into an existing directory
\* under its stem and the index 1
C17_Witness ==
    /\ pc \in StoreCalls
    /\ \E i \in Members :
          /\ i = 2 /\ results[i].st = "Done" /\ results[i].res = "Ok"
          /\ \E k \in DOMAIN target :
                /\ target[k].path.is_dir
                /\ results[i].paths[k].name = <<"photo-1", "png">>

\* the file name Target::store hands to the encoder of its first item
EncoderInput ==
    LET computed == compute_and_create_path(last.tgt[1].path, last.arg).path
    IN  IF last.count = None THEN computed.name
        ELSE indexed_file_name(computed, last.count[1])

\* C18: a store that succeeds leaves the extension of the file name alone
\* when it matches the target format without regard to case (jpg or jpeg,
\* png, tiff or tif, bmp, gif), otherwise the extension is replaced by the
\* canonical one of the format; the path returned is the path of the one
\* file written
C18_ExtensionResolved ==
    (last.call = "Target_store" /\ last.res = "Ok") =>
        LET name == EncoderInput
            ext == extension(Path("", name))
            method == last.tgt[1].method
            stem == IF ext = None THEN name ELSE SubSeq(name, 1, Len(name) - 1)
        IN  /\ Len(last.paths) = 1
            /\ (ext # None /\ to_lowercase(ext[1]) \in AcceptedExt(method)) =>
                    last.paths[1].name = name
            /\ ~(ext # None /\ to_lowercase(ext[1]) \in AcceptedExt(method)) =>
                    last.paths[1].name = Append(stem, CanonicalExt(method))
            /\ Len(last.written) = 1
            /\ last.written[1].path = last.paths[1]

\* a file name with the extension Tif, stored as Tiff, kept its extension
C18_Witness ==
    /\ last.call = "Target_store" /\ last.res = "Ok"
    /\ last.tgt[1].method = "Tiff"
    /\ last.paths = <<Path("new", <<"thumb", "Tif">>)>>
    /\ last.written # <<>> /\ last.written[1].path = Path("new", <<"thumb", "Tif">>)

\* C19: when a Thumbnail whose source decodes applies a queue headed by an
\* Exif operation, the call returns an operation failure that names that
\* operation, and the reason the operation gives is NotImplemented
C19_ExifFailsExplicitly ==
    (/\ last.call \in {"apply", "apply_store_keep", "apply_store"}
     /\ last.before.live
     /\ last.before.ops # <<>>
     /\ Head(last.before.ops).kind = "Exif"
     /\ get_dyn_image(last.before.data).ok) =>
        /\ last.res = "OperationError"
        /\ last.err = Head(last.before.ops)
        /\ Operation_apply(Head(last.before.ops),
                           get_dyn_image(last.before.data).data.image.img).info = "NotImplemented"

\* C20: try_clone_and_load returns a clone only after forcing the original
\* into memory: when it succeeds the original is Resident (holding the buffer
\* it had, or the decoded source), the clone is Resident with an equal buffer,
\* the same path and an equal pending queue, and the original's queue is
\* untouched; when it fails there is no clone and the original is unchanged.
\* Whatever a clone call returns never holds a file handle.
C20_CloneFromResident ==
    /\ last.call = "try_clone_and_load" =>
          /\ last.res = "Ok" =>
                /\ IsResident(thumb.data)
                /\ thumb.data.image.img = IF IsResident(last.before.data)
                                          THEN last.before.data.image.img
                                          ELSE Decode(last.before.data.path)
                /\ IsResident(last.ret)
                /\ last.ret.path = thumb.data.path
                /\ last.ret.image.img = thumb.data.image.img
                /\ last.retops = last.before.ops
                /\ thumb.ops = last.before.ops
          /\ last.res # "Ok" =>
                /\ last.ret = NoData /\ last.retops = <<>>
                /\ thumb = last.before
                /\ ~IsResident(thumb.data)
    /\ last.call \in {"try_clone_and_load", "clone_static_copy"} =>
          (last.ret # NoData => (IsResident(last.ret) /\ IsResident(thumb.data)))

\* a handle that was still Unloaded, with operations pending, was cloned
C20_Witness ==
    /\ last.call = "try_clone_and_load" /\ last.res = "Ok"
    /\ ~IsResident(last.before.data)
    /\ last.before.ops # <<>>
    /\ IsResident(last.ret) /\ last.retops = last.before.ops

\* C21: a StaticThumbnail returned by clone_static_copy holds the decoded
\* buffer the source Thumbnail had at that moment, and the StaticThumbnail a
\* caller keeps changes in no later step: not when operations are applied to
\* the source Thumbnail, not when a Combine that has it as overlay runs, not
\* when the source is stored
C21_StaticNeverChanges ==
    /\ [](last.call = "clone_static_copy" /\ last.res = "Some" =>
            /\ IsResident(thumb.data)
            /\ static_copy = Some(StaticThumbnail(thumb.data.path, thumb.data.image.img)))
    /\ [][static_copy # None => static_copy' = static_copy]_vars

\* a Combine with the kept StaticThumbnail as overlay has run on the source
\* Thumbnail, whose buffer now differs from the StaticThumbnail's pixels
C21_Witness ==
    /\ static_copy # None
    /\ last.call = "apply" /\ last.res = "Ok"
    /\ IsResident(thumb.data)
    /\ thumb.data.image.img.px # static_copy[1].image.px
    /\ \E k \in DOMAIN thumb.data.image.img.px :
          /\ thumb.data.image.img.px[k].kind = "Combine"
          /\ thumb.data.image.img.px[k].image = static_copy[1]

(***************************************************************************)
(* Properties of a ThumbnailCollection, checked under SpecColl             *)
(***************************************************************************)
\* the collection call named by last has returned
Returned(calls) == last.call \in calls /\ last.res # "Running"

ApplyCalls == {"apply", "apply_store_keep", "apply_store"}
ApplyStoreCalls == {"apply_store_keep", "apply_store"}

\* the members for whom the worker returned res
MembersWith(res) == { i \in Members : results[i].st = "Done" /\ results[i].res = res }

\* C3: ThumbnailCollection::apply() returns success whenever no member
\* failed, whatever the size of the collection.
C3_ApplySucceedsWithoutFailure ==
    (Returned({"apply"}) /\ \A i \in Members : results[i].res = "Ok") => last.res = "Ok"

\* C4: apply_store / apply_store_keep of a collection returns a
\* CollectionError if and only if some member failed, be it in loading, in an
\* operation or in storing; otherwise it returns the paths of every member.
C4_AggregateIffMemberFailed ==
    Returned(ApplyStoreCalls) =>
        /\ last.res = "CollectionError" <=> (\E i \in Members : results[i].res # "Ok")
        /\ last.res = "Ok" =>
               Range(last.paths) = UNION { Range(results[i].paths) : i \in Members }

\* C5: in apply, apply_store_keep and apply_store of a collection, a member
\* on whom every operation queued so far succeeds is processed whatever the
\* other members' results are: once its worker is done its buffer is the
\* original with the queued operations applied in order, no failure of an
\* operation or of loading is reported for it, and in the storing calls the
\* target was run on it (files were written; when the store succeeded one path
\* per item of the target is returned).
C5_FailureIsolation ==
    last.call \in ApplyCalls =>
        \A i \in Members :
            (results[i].st = "Done" /\ cdirect[i].valid) =>
                /\ coll.images[i].image = ImageData_Image(cdirect[i].img)
                /\ results[i].res \in {"Ok", "StoreError"}
                /\ last.call = "apply" => results[i].res = "Ok"
                /\ last.call \in ApplyStoreCalls =>
                      /\ results[i].written # <<>>
                      /\ results[i].res = "Ok" => Len(results[i].paths) = Len(target)

\* apply_store_keep with a non-empty snapshot: one member failed in an
\* operation, another one was processed and stored
C5_Witness ==
    /\ last.call = "apply_store_keep" /\ AllDone /\ snapshot # <<>>
    /\ \E i, j \in Members :
          /\ results[j].res = "OperationError"
          /\ cdirect[i].valid /\ results[i].res = "Ok"
          /\ coll.images[i].image.img.px = snapshot

C7_SnapshotAndClear ==
    last.call \in ApplyCalls =>
        /\ coll.ops = <<>>
        /\ snapshot = last.cbefore.ops
        /\ \A i \in Members :
              /\ results[i].st = "Pending" => coll.images[i] = last.cbefore.images[i]
              /\ (results[i].st = "Done" /\ results[i].res # "LoadingImageError") =>
                    /\ IsResident(coll.images[i])
                    /\ \E k \in 0..Len(snapshot) :
                          /\ coll.images[i].image.img.px =
                                 PxBefore(last.cbefore.images[i]) \o SubSeq(snapshot, 1, k)
                          /\ results[i].res \in {"Ok", "StoreError"} => k = Len(snapshot)
                          /\ results[i].res = "OperationError" =>
                                 (k < Len(snapshot) /\ results[i].err = snapshot[k + 1])

\* a call over two members and a queue of two operations has returned with a
\* failure, the shared queue is empty
C7_Witness ==
    /\ Returned(ApplyStoreCalls) /\ last.res = "CollectionError"
    /\ Len(last.cbefore.ops) = 2 /\ Len(coll.images) >= 2
    /\ coll.ops = <<>>

\* what the closure of a call returns for the member at position i
MemberOutcome(call, i, data, ops, tgt) ==
    CASE call = "apply" -> apply_closure(data, ops)
      [] call \in {"apply_store_keep", "apply_store"} -> apply_store_closure(i - 1, data, ops, tgt)
      [] call \in {"store_keep", "store"} -> store_closure(i - 1, data, tgt)

\* what a call returns once it has the members' results
CallOutcome(call, rs) ==
    CASE call = "apply" -> ThumbnailCollection_apply_result(rs)
      [] call \in {"apply_store_keep", "apply_store"} -> ThumbnailCollection_apply_store_keep_result(rs)
      [] call \in {"store_keep", "store"} -> ThumbnailCollection_store_keep_result(rs)

FanoutCalls == {"apply", "apply_store_keep", "apply_store", "store_keep", "store"}

\* the members processed one after the other, from the collection as it was
\* when the call began
OneAfterTheOther ==
    [i \in 1..Len(last.cbefore.images) |->
        MemberOutcome(last.call, i, last.cbefore.images[i],
                      IF last.call \in {"store_keep", "store"} THEN <<>> ELSE last.cbefore.ops,
                      target)]

\* C22: while a fan-out call runs, a step of a worker takes one pending
\* member, finishes it and touches no other member, a finished member is not
\* touched again, and the queue snapshot and the target stay as they are; when
\* the call has returned, every member's state, every member's result and
\* the result of the call are those of processing the members one after the
\* other, whatever order the workers ran in
C22_WorkersAreIndependent ==
    /\ [][(pc \in FanoutCalls /\ pc' = pc) =>
            /\ snapshot' = snapshot /\ target' = target
            /\ Len(coll'.images) = Len(coll.images)
            /\ \E i \in Members :
                  /\ results[i].st = "Pending" /\ results'[i].st = "Done"
                  /\ \A j \in Members \ {i} :
                        results'[j] = results[j] /\ coll'.images[j] = coll.images[j]]_vars
    /\ []((last.call \in FanoutCalls /\ last.res # "Running") =>
            /\ Len(coll.images) = Len(last.cbefore.images)
            /\ \A i \in Members :
                  /\ coll.images[i] = OneAfterTheOther[i].data
                  /\ results[i] = OneAfterTheOther[i].result
            /\ CallResult(last.res, last.paths, last.store_errors, last.operation_errors) =
                   CallOutcome(last.call, [i \in Members |-> OneAfterTheOther[i].result]))

\* an apply_store_keep over three members has returned; a member failed in
\* its queue and a member after it was stored
C22_Witness ==
    /\ last.call = "apply_store_keep" /\ last.res = "CollectionError"
    /\ Len(coll.images) = 3
    /\ \E i, j \in Members :
          /\ i < j
          /\ results[i].res = "OperationError"
          /\ results[j].res = "Ok" /\ results[j].paths # <<>>

\* C23: every fan-out call of a Collection that has begun returns, whatever
\* the number of members and whichever members fail
C23_FanoutReturns ==
    (pc \in FanoutCalls) ~> (pc \in {"idle", "gone"} /\ last.res \in {"Ok", "CollectionError"})

\* a call over three members has returned with a member that failed
C23_Witness ==
    /\ pc \in {"idle", "gone"}
    /\ last.call \in FanoutCalls /\ last.res = "CollectionError"
    /\ Len(results) = 3
    /\ \A i \in Members : results[i].st = "Done"

\* C24: the CollectionError of a Collection's apply holds one operation
\* failure for each member on which apply_ops_list failed, in the members'
\* order, and no output path and no store failure
C24_ApplyErrorLists ==
    (Returned({"apply"}) /\ last.res = "CollectionError") =>
        /\ last.paths = <<>>
        /\ last.store_errors = <<>>
        /\ Len(last.operation_errors) = Cardinality({ i \in Members : results[i].res # "Ok" })
        /\ Range(last.operation_errors) = { results[i].err : i \in MembersWith("OperationError") }

(***************************************************************************)
(* Properties of the operations, checked under SpecOps                     *)
(***************************************************************************)
\* the top left corner the overlay of the last call is placed at
OverlayOrigin ==
    BoxPosition_origin(last.op.pos, last.op.image.image.w, last.op.image.image.h)

\* whether the overlay of the last call covers the pixel c of the background,
\* and the overlay pixel that lies on it
Covered(c) ==
    /\ c[1] >= OverlayOrigin.x /\ c[1] < OverlayOrigin.x + last.op.image.image.w
    /\ c[2] >= OverlayOrigin.y /\ c[2] < OverlayOrigin.y + last.op.image.image.h
OverlayPixel(c) == last.op.image.image.pix[<<c[1] - OverlayOrigin.x, c[2] - OverlayOrigin.y>>]

\* C25: a Combine whose anchor is accepted on an RGB or RGBA background
\* succeeds, also when overlay pixels lie outside the background; afterwards
\* every background pixel the overlay covers has red, green and blue equal to
\* alpha * src + (1 - alpha) * dst, and every other pixel is as it was
C25_StraightAlphaBlend ==
    (/\ last.call = "apply" /\ last.op.kind = "Combine"
     /\ OverlayOrigin.ok /\ last.image.layout \in {"Rgb8", "Rgba8"}) =>
        /\ last.out.ok
        /\ \A c \in Coords(last.image.w, last.image.h) :
              IF Covered(c)
              THEN \A channel \in 1..3 :
                      last.out.img.pix[c][channel] =
                          blend_channel(OverlayPixel(c)[4], OverlayPixel(c)[channel],
                                        last.image.pix[c][channel])
              ELSE last.out.img.pix[c] = last.image.pix[c]

\* the extent of the box the last call places: the overlay, or the text
BoxExtent ==
    IF last.op.kind = "Combine" THEN <<last.op.image.image.w, last.op.image.image.h>>
    ELSE <<string_width(last.op.text), string_height>>

\* an anchor coordinate of the last call is smaller than the extent of the
\* box on its axis: the top left corner would lie at a negative coordinate
OriginNegative ==
    CASE last.op.pos.anchor = "TopLeft" -> FALSE
      [] last.op.pos.anchor = "TopRight" -> last.op.pos.x < BoxExtent[1]
      [] last.op.pos.anchor = "BottomLeft" -> last.op.pos.y < BoxExtent[2]
      [] last.op.pos.anchor = "BottomRight" ->
            last.op.pos.x < BoxExtent[1] \/ last.op.pos.y < BoxExtent[2]

RatioCropped == last.call = "apply" /\ last.op.kind = "Crop" /\ last.op.crop.mode = "Ratio"

\* the columns cut on the left and the rows cut at the top, read from the
\* first pixel that was kept (0 when nothing was kept)
CutLeft == IF <<0, 0>> \in DOMAIN last.out.img.pix THEN last.out.img.pix[<<0, 0>>][1] ELSE 0
CutTop == IF <<0, 0>> \in DOMAIN last.out.img.pix THEN last.out.img.pix[<<0, 0>>][2] ELSE 0

\* the kept pixels are those of one rectangle of the source
KeptRectangle ==
    \A c \in DOMAIN last.out.img.pix :
        /\ <<c[1] + CutLeft, c[2] + CutTop>> \in DOMAIN last.image.pix
        /\ last.out.img.pix[c] = last.image.pix[<<c[1] + CutLeft, c[2] + CutTop>>]

\* C27: Crop::Ratio(w, h) on an image of W x H keeps one rectangle of the
\* image: if W/H <= w/h, the width stays W, the height becomes the one of the
\* ratio (truncated) and the rows cut at the top and at the bottom differ by
\* at most 1; otherwise the height stays H, the width becomes the one of the
\* ratio, smaller than W, and the columns cut left and right differ by at most 1
C27_CropRatioCentred ==
    RatioCropped =>
        /\ last.out.ok /\ KeptRectangle
        /\ IF last.image.w * last.op.crop.h_r <= last.op.crop.w_r * last.image.h
           THEN /\ last.out.img.w = last.image.w /\ CutLeft = 0
                /\ last.out.img.h <= last.image.h
                /\ last.out.img.h * last.op.crop.w_r <= last.image.w * last.op.crop.h_r
                /\ last.image.w * last.op.crop.h_r < (last.out.img.h + 1) * last.op.crop.w_r
                /\ last.out.img.h > 0 =>
                      (last.image.h - last.out.img.h - CutTop) - CutTop \in {0, 1}
           ELSE /\ last.out.img.h = last.image.h /\ CutTop = 0
                /\ last.out.img.w < last.image.w
                /\ last.out.img.w * last.op.crop.h_r <= last.op.crop.w_r * last.image.h
                /\ last.op.crop.w_r * last.image.h < (last.out.img.w + 1) * last.op.crop.h_r
                /\ last.out.img.w > 0 =>
                      (last.image.w - last.out.img.w - CutLeft) - CutLeft \in {0, 1}

\* an 8 x 1 image was cut to the ratio 1:1: one column is kept, three are cut
\* on its left and four on its right
C27_Witness ==
    /\ RatioCropped
    /\ last.image.w = 8 /\ last.image.h = 1
    /\ last.op.crop.w_r = 1 /\ last.op.crop.h_r = 1
    /\ last.out.img.w = 1 /\ last.out.img.h = 1
    /\ CutLeft = 3

\* the last call was a Resize on a buffer in the 8 bit RGB layout
ResizedRgb == last.call = "apply" /\ last.op.kind = "Resize" /\ last.image.layout = "Rgb8"

\* C28: for Resize::Height(h) and Resize::Width(w) the resizer is asked for the
\* given dimension as it is and for the truncated ratio-derived value plus 1,
\* which is at least 1, whatever the source size and the requested value are
C28_MissingDimensionPlusOne ==
    /\ (ResizedRgb /\ last.op.size.mode = "Height") =>
          /\ last.out.ok
          /\ last.out.req[2] = last.op.size.y
          /\ last.out.req[1] = Min((last.image.w * last.op.size.y) \div last.image.h, WordMax) + 1
          /\ last.out.req[1] >= 1
    /\ (ResizedRgb /\ last.op.size.mode = "Width") =>
          /\ last.out.ok
          /\ last.out.req[1] = last.op.size.x
          /\ last.out.req[2] = Min((last.op.size.x * last.image.h) \div last.image.w, WordMax) + 1
          /\ last.out.req[2] >= 1

\* the failures of an operation that say a buffer could not be converted
BufferConversionFailures == {"RgbImageConversionFailure", "ImageBufferConversionFailure"}

\* C29: Resize on a buffer that is not in the 8 bit RGB layout fails with a
\* buffer conversion failure and leaves the buffer as it was; on every buffer
\* in that layout it succeeds
C29_ResizeNeedsRgb ==
    (last.call = "apply" /\ last.op.kind = "Resize") =>
        IF last.image.layout # "Rgb8"
        THEN /\ ~last.out.ok
             /\ last.out.info \in BufferConversionFailures
             /\ last.out.img = last.image
        ELSE last.out.ok

\* C30: within one store of a Collection, the files written for two different
\* members and the same target entry have different paths, also when the two
\* members have the same source stem and when the entry is a file path
C30_DistinctOutputPaths ==
    pc \in StoreCalls =>
        \A i, j \in Members :
            (i # j /\ results[i].st = "Done" /\ results[j].st = "Done") =>
                \A k \in DOMAIN results[i].written \cap DOMAIN results[j].written :
                    results[i].written[k].path # results[j].written[k].path

\* two members loaded from the same source were both stored, into the
\* directory and under the file path of the target
C30_Witness ==
    /\ pc \in StoreCalls
    /\ \E i, j \in Members :
          /\ i # j
          /\ coll.images[i].path = coll.images[j].path
          /\ results[i].st = "Done" /\ results[i].res = "Ok"
          /\ results[j].st = "Done" /\ results[j].res = "Ok"
          /\ Len(results[i].written) = 2 /\ Len(results[j].written) = 2
          /\ target[1].path.is_dir /\ ~target[2].path.is_dir /\ ~target[2].path.sep

(***************************************************************************)
(* Properties of the builder, checked under SpecBuilder                    *)
(***************************************************************************)
\* the file at p cannot be loaded: it is no regular file, cannot be opened, or
\* its content is of no known format
LoadFails(p) == ~FileAt(p).is_file \/ ~FileAt(p).opens \/ FileAt(p).sig = "None"

\* the positions of the walk of the last add_glob at which a file was matched
\* that cannot be loaded
FailingMatches == { i \in DOMAIN last.walk : last.walk[i] # None /\ LoadFails(last.walk[i][1]) }

\* the paths of the images from position n + 1 on
PathsAfter(images, n) == [k \in 1..(Len(images) - n) |-> images[n + k].path]

\* the matched paths of a walk, in its order
RECURSIVE MatchedPaths(_, _)
MatchedPaths(walk, i) ==
    IF i > Len(walk) THEN <<>>
    ELSE IF walk[i] = None THEN MatchedPaths(walk, i + 1)
    ELSE <<walk[i][1]>> \o MatchedPaths(walk, i + 1)

\* C31: add_glob returns the error of the first matched file that fails to
\* load and the builder's images are then those it had before the call; a
\* malformed pattern gives a GlobError and the same images as before; when
\* every matched file loads, the matched files are appended in the walk's order
C31_AddGlobAllOrNothing ==
    last.call = "add_glob" =>
        IF ~globwalk_glob(last.glob).ok
        THEN last.res = "GlobError" /\ coll = last.cbefore
        ELSE IF FailingMatches # {}
        THEN /\ \E i \in FailingMatches :
                   /\ \A j \in FailingMatches : i <= j
                   /\ last.ferr.path = last.walk[i][1]
                   /\ last.res = last.ferr.tag
                   /\ last.res \in {"NotFound", "IoError", "NotSupported"}
             /\ coll = last.cbefore
        ELSE /\ last.res = "Ok"
             /\ coll.ops = last.cbefore.ops
             /\ SubSeq(coll.images, 1, Len(last.cbefore.images)) = last.cbefore.images
             /\ PathsAfter(coll.images, Len(last.cbefore.images)) = MatchedPaths(last.walk, 1)

\* a glob matched a file that loads and then one that does not: the call
\* returned NotSupported and the builder, which held an image before, holds
\* the same images
C31_Witness ==
    /\ last.call = "add_glob"
    /\ last.walk = <<Some(PathRgb), Some(PathText)>>
    /\ last.res = "NotSupported"
    /\ last.cbefore.images # <<>>
    /\ coll = last.cbefore

(***************************************************************************)
(* Properties over sequences of calls                                      *)
(***************************************************************************)
\* the operations that were executed on the buffer of data
Executed(data) == IF IsResident(data) THEN data.image.img.px ELSE <<>>

\* this step is an apply on the Thumbnail that follows an apply which failed
\* in an operation, with nothing queued in between
ApplyAgain ==
    /\ thumb.live /\ thumb'.live
    /\ last.call = "apply" /\ last.res = "OperationError"
    /\ last.before.ops = thumb.ops
    /\ last'.call = "apply" /\ last'.before = thumb

\* C32: an operation that was queued once is executed on an image at most
\* once. On a Thumbnail, the operations a failed apply executed are not
\* executed again by the next apply; in a Collection, a member's buffer is
\* worked on once per call, with operations that have left the shared queue
C32_ExecutedAtMostOnce ==
    [][ /\ ApplyAgain => Executed(thumb'.data) = Executed(thumb.data)
        /\ \A i \in Members :
              (pc' = pc /\ i \in DOMAIN coll'.images
                 /\ Executed(coll'.images[i]) # Executed(coll.images[i])) =>
                  /\ results[i].st = "Pending" /\ results'[i].st = "Done"
                  /\ coll'.ops = <<>>
                  /\ Len(Executed(coll'.images[i])) - Len(Executed(coll.images[i])) <= Len(snapshot)
      ]_vars

\* C33: when a store call of a Collection has returned, the path of every
\* file that was written is among the paths handed to the caller (the Ok
\* value, or the paths of the CollectionError), also for a member whose store
\* failed at a later item of the target
C33_WrittenFilesAreReported ==
    (pc \in {"idle", "gone"} /\ Returned(StoreCalls)) =>
        \A i \in Members :
            \A k \in DOMAIN results[i].written :
                results[i].written[k].path \in Range(last.paths)

\* the results that say the queue was not applied as a whole
ApplyFailures == {"OperationError", "LoadingImageError", "Panic"}

\* C34: apply_store and apply_store_keep store no image on which the queue
\* failed. For a Thumbnail whose apply failed no file is written; in a
\* Collection no file is written for a member whose loading or whose
\* operation failed; every file that is written holds the buffer with the
\* whole queue applied
C34_NoStoreAfterFailedApply ==
    /\ (last.call \in ApplyStoreCalls /\ last.before.live) =>
          /\ last.res \in ApplyFailures => last.written = <<>>
          /\ \A k \in DOMAIN last.written :
                last.written[k].image.px = Executed(last.before.data) \o last.before.ops
    /\ pc \in ApplyStoreCalls =>
          \A i \in Members :
              results[i].st = "Done" =>
                  /\ results[i].res \in ApplyFailures => results[i].written = <<>>
                  /\ \A k \in DOMAIN results[i].written :
                        results[i].written[k].image.px =
                            Executed(last.cbefore.images[i]) \o snapshot

\* apply_store_keep of a Collection with a queue whose second operation fails
\* on one member: that member has no file, another member was stored
C34_Witness ==
    /\ pc = "apply_store_keep" /\ Len(snapshot) = 2
    /\ \E i, j \in Members :
          /\ results[i].st = "Done" /\ results[i].res = "OperationError"
          /\ Executed(coll.images[i]) # <<>>
          /\ results[i].written = <<>>
          /\ results[j].st = "Done" /\ results[j].written # <<>>

\* how often op occurs in the sequence ops
RECURSIVE Occurrences(_, _)
Occurrences(op, ops) ==
    IF ops = <<>> THEN 0
    ELSE (IF Head(ops) = op THEN 1 ELSE 0) + Occurrences(op, Tail(ops))

\* C35: add_thumb appends the Thumbnail's image data, as it is, after the
\* members the collection has, leaves the shared queue as it was, and the
\* Thumbnail is gone; the operations that were pending on it are executed on
\* no image afterwards (CropBeyond is queued on Thumbnails only, so its
\* executions on a member never grow in number)
C35_AddThumbMovesDataOnly ==
    /\ [](last.call = "add_thumb" =>
            /\ coll.images = Append(last.cbefore.images, last.before.data)
            /\ coll.ops = last.cbefore.ops
            /\ ~thumb.live)
    /\ [][ /\ CropBeyond \notin Range(coll'.ops) \cup Range(snapshot')
           /\ \A i \in Members :
                 i \in DOMAIN coll'.images =>
                     Occurrences(CropBeyond, Executed(coll'.images[i])) =
                         Occurrences(CropBeyond, Executed(coll.images[i]))
         ]_vars

\* a Thumbnail that was cropped once and had a second crop pending was added
\* to a collection that held a member: it is the last member, cropped once
C35_Witness ==
    /\ last.call = "add_thumb"
    /\ last.cbefore.images # <<>>
    /\ last.before.ops = <<CropBeyond>>
    /\ Executed(coll.images[Len(coll.images)]) = <<CropBeyond>>

\* the file of member i for item k of the target
MemberFile(i, k) ==
    Path(target[k].path.dir, IndexedName(ResolvedName(target[k], coll.images[i].path), i - 1))

\* the files of the members from position i on that were stored, member by
\* member and for each member item by item
RECURSIVE FilesInOrder(_)
FilesInOrder(i) ==
    IF i > Len(coll.images) THEN <<>>
    ELSE (IF results[i].res = "Ok" THEN [k \in DOMAIN target |-> MemberFile(i, k)] ELSE <<>>)
         \o FilesInOrder(i + 1)

\* C36: the path list a store call of a Collection returns with Ok holds the
\* files of the members that were stored in the order of the members'
\* positions and, for one member, in the order of the target's items,
\* whatever the order was in which the workers ran
C36_PathsInMemberAndTargetOrder ==
    (pc \in {"idle", "gone"} /\ Returned(StoreCalls) /\ last.res = "Ok") =>
        last.paths = FilesInOrder(1)

\* a store call on three members and a target of two items returned Ok with
\* six paths: the third one is the second member's file in the directory
C36_Witness ==
    /\ pc \in {"idle", "gone"} /\ Returned(StoreCalls) /\ last.res = "Ok"
    /\ Len(coll.images) = 3 /\ Len(target) = 2 /\ Len(last.paths) = 6
    /\ last.paths[3] = MemberFile(2, 1)
    /\ last.paths[3].dir = "out"

====
